---- MODULE Spec2Model ----
(***************************************************************************)
(* go-mem: the per-card game engine (internal/state, internal/game) and    *)
(* the scoring it drives (internal/scoring), as a state machine.           *)
(*                                                                         *)
(* A card's text is a sequence of one-character strings.  Positions are    *)
(* 0-based as in the Go code; At(seq, i) reads the element at index i.     *)
(* Every handler (HandleKeyPress, HandleTick) is one action: the cascade   *)
(* of FSM events that the enter_ callbacks fire is run to its end inside   *)
(* the action, as looplab/fsm runs it inside the one Event call.           *)
(***************************************************************************)
EXTENDS Integers, Sequences, FiniteSets, TLC

\* ------------------------------------------------------------------ bounds

\* Longest card text (after bracket stripping) that Init draws.
MaxLen == 4
\* Largest fixed timer limit (seconds) that Init draws.
MaxTimeLimit == 2
\* Longest card text that Init draws with a bracket-annotated span.
MaxBracketedLen == 2
\* Largest -nr (random letters) option that Init draws.
MaxNRandom == 1
\* Largest -nfw (random words) option that Init draws.
MaxNWords == 1
MaxWritten == 1
MaxCards == 2
MaxCardLen == 1
MaxClock == 1
MaxLedger == 2
\* Longest card text over the letters H and i that InitFlow draws.
MaxFlowLen == 3
\* Length of the long card that InitBudget draws: a third of it is above the
\* ten seconds every card gets at least.
MaxLongCard == 33
\* Longest raw card text, brackets included, that InitBrackets draws.
MaxRawLen == 5

\* ------------------------------------------------------- characters, keys

\* The mask's placeholder rune.
Placeholder == "_"

\* Characters a card text is drawn from: a letter (in upper case), the full
\* stop (ignorable punctuation) and the question mark (punctuation that is not
\* ignorable).  The loader trims white space off a card and drops an empty
\* one, so every non-empty sequence of these is a card it can load.
SecretChars == {"A", ".", "?"}

\* Key names as bubbletea's msg.String() hands them to HandleKeyPress.
Keys == {"a", "z", ".", "?", "ctrl+r", "ctrl+c"}

\* strings.ToLower on the key names and characters of the model.
ToLower(ch) ==
    CASE ch = "A" -> "a"
      [] ch = "B" -> "b"
      [] ch = "H" -> "h"
      [] ch = "I" -> "i"
      [] ch = "Z" -> "z"
      [] OTHER -> ch

\* strings.EqualFold on the key names and characters of the model.
EqualFold(x, y) == ToLower(x) = ToLower(y)

\* rune(ch[0]): the first byte of a key name.
FirstRune(ch) ==
    CASE ch = "ctrl+r" -> "c"
      [] ch = "ctrl+c" -> "c"
      [] ch = "tab" -> "t"
      [] OTHER -> ch

\* unicode.IsLetter(ch) || unicode.IsDigit(ch)
IsLetterOrDigit(ch) == ch \in {"a", "A", "b", "B", "h", "H", "i", "I", "z", "Z", "é"}

\* len(string(r)): the bytes of a character's UTF-8 encoding.
ByteLen(ch) == IF ch = "é" THEN 2 ELSE 1

RECURSIVE ByteOffset(_, _)
\* The index in string(runes) of the first byte of the rune at index n.
ByteOffset(runes, n) ==
    IF n = 0 THEN 0 ELSE ByteOffset(runes, n - 1) + ByteLen(runes[n])

At(seq, i) == seq[i + 1]

SetAt(seq, i, v) == [seq EXCEPT ![i + 1] = v]

Indices(seq) == 0 .. (Len(seq) - 1)

isPunctuation(r) == r \in {",", ".", "!", "?", ";", ":", "\n"}

IsExitRequested(ch) == ch = "ctrl+c"

IsRevealRequested(ch) == ch = "ctrl+r"

ShouldIgnore(ch) ==
    IF ch = "" THEN FALSE
    ELSE LET isSpace == ch = " "
             isNonQuestionMarkPunc == isPunctuation(FirstRune(ch)) /\ ch # "?"
         IN  isSpace \/ isNonQuestionMarkPunc

\* ------------------------------------------------------------- scoring

\* getScoreTable(): the points of each scoring event; an unknown event is 0.
getScoreTable(event) ==
    CASE event = "baseScore" -> 10
      [] event = "rightLetter" -> 25
      [] event = "wrongLetter" -> -50
      [] event = "hint" -> -100
      [] event = "wordBonus" -> 250
      [] event = "messageBonus" -> 1000
      [] OTHER -> 0

\* calculateHash identifies a text; SHA-256 is taken to be collision free, so
\* the hash is the tagged text itself.
calculateHash(text) == <<"sha256", text>>

RECURSIVE SelectSeq2(_, _)
\* The entries of a ledger whose Hash is h, in ledger order.
SelectSeq2(entries, h) ==
    IF entries = <<>> THEN <<>>
    ELSE IF Head(entries).Hash = h
         THEN <<Head(entries)>> \o SelectSeq2(Tail(entries), h)
         ELSE SelectSeq2(Tail(entries), h)

RECURSIVE SortByScoreDesc(_)
\* sort.Slice(entries, Score descending).
SortByScoreDesc(entries) ==
    IF entries = <<>> THEN <<>>
    ELSE LET i == CHOOSE k \in 1 .. Len(entries) :
                      \A j \in 1 .. Len(entries) : entries[k].Score >= entries[j].Score
             rest == [j \in 1 .. (Len(entries) - 1) |->
                          IF j < i THEN entries[j] ELSE entries[j + 1]]
         IN  <<entries[i]>> \o SortByScoreDesc(rest)

\* InitScoring: the Scoring value of a new attempt at secretMessage, with the
\* history of that text loaded from the ledger.
InitScoring(secretMessage, title, allEntries, now) ==
    LET textHash == calculateHash(secretMessage)
        filteredEntries == SortByScoreDesc(SelectSeq2(allEntries, textHash))
    IN  [CurrentScore |-> 0,
         HintCount |-> 0,
         ErrorCount |-> 0,
         PotentialScore |-> getScoreTable("baseScore") * Len(secretMessage),
         textHash |-> textHash,
         history |-> [Entries |-> filteredEntries,
                      Attempts |-> Len(filteredEntries),
                      CurrentScore |-> [Hash |-> textHash,
                                        Score |-> 0,
                                        Timestamp |-> now,
                                        Title |-> title]]]

\* Scoring.ScoreEvent: counters, the table value, and the in-progress entry.
ScoreEvent(sc, event) ==
    LET s1 == CASE event = "hint" -> [sc EXCEPT !.HintCount = @ + 1]
                [] event = "wrongLetter" -> [sc EXCEPT !.ErrorCount = @ + 1]
                [] OTHER -> sc
        s2 == [s1 EXCEPT !.CurrentScore = @ + getScoreTable(event)]
    IN  [s2 EXCEPT !.history.CurrentScore.Score = s2.CurrentScore]

\* AddTimeBonus, leaving the in-progress entry of the history as it was.
AddTimeBonus_unrecorded(sc, seconds) ==
    [sc EXCEPT !.CurrentScore = @ + seconds * 10]

\* Scoring.AddTimeBonus
AddTimeBonus(sc, seconds) ==
    LET bonus == seconds * 10
        s1 == [sc EXCEPT !.CurrentScore = @ + bonus]
    IN  [s1 EXCEPT !.history.CurrentScore.Score = s1.CurrentScore]

RECURSIVE DropHash(_, _)
\* The entries of a ledger whose Hash is not h, in ledger order.
DropHash(entries, h) ==
    IF entries = <<>> THEN <<>>
    ELSE IF Head(entries).Hash # h
         THEN <<Head(entries)>> \o DropHash(Tail(entries), h)
         ELSE DropHash(Tail(entries), h)

RECURSIVE DropTimestamp(_, _)
\* The entries whose Timestamp is not ts, in order.
DropTimestamp(entries, ts) ==
    IF entries = <<>> THEN <<>>
    ELSE IF Head(entries).Timestamp # ts
         THEN <<Head(entries)>> \o DropTimestamp(Tail(entries), ts)
         ELSE DropTimestamp(Tail(entries), ts)

\* updatedEntries of Scoring.SaveEntries, the list SaveAll is given: other
\* texts' entries, the current attempt, then this text's history except
\* entries carrying the attempt's timestamp.
updatedEntries(sc, allEntries) ==
    DropHash(allEntries, sc.textHash)
        \o <<sc.history.CurrentScore>>
        \o DropTimestamp(sc.history.Entries, sc.history.CurrentScore.Timestamp)

\* ------------------------------------------------------ the scores file

\* What goes wrong with the scores file while one event is handled: nothing,
\* the file cannot be opened for reading, the directory cannot be created,
\* the file cannot be opened for writing, or writing stops after the file was
\* truncated, with `written` whole entries in it and perhaps a torn one.
NoFault == [kind |-> "none", written |-> 0, torn |-> FALSE]

Faults ==
    {[kind |-> k, written |-> 0, torn |-> FALSE] : k \in {"none", "load", "mkdir", "open"}}
        \cup [kind : {"write"}, written : 0 .. MaxWritten, torn : BOOLEAN]

\* The errors of JSONFileStorage.SaveAll.
SaveAllErrors ==
    {"error creating scores directory",
     "error opening scores file for writing",
     "error encoding JSON entry"}

\* JSONFileStorage.LoadAll on the store of s: the entries and the error.  A
\* missing file and an empty file both give no entries and no error.
LoadAll(s) ==
    IF s.fault.kind = "load"
    THEN [entries |-> <<>>, err |-> "error opening scores file for reading"]
    ELSE IF s.torn
    THEN [entries |-> <<>>, err |-> "error decoding JSON entry"]
    ELSE [entries |-> s.ledger, err |-> ""]

\* JSONFileStorage.SaveAll on the store of s: the State after it and the
\* error.  The directory can be missing only while there is no file.
SaveAll(s, entries) ==
    IF s.fault.kind = "mkdir" /\ s.ledger = <<>> /\ ~s.torn
    THEN [s |-> s, err |-> "error creating scores directory"]
    ELSE IF s.fault.kind = "open"
    THEN [s |-> s, err |-> "error opening scores file for writing"]
    ELSE IF s.fault.kind = "write"
    THEN LET n == IF s.fault.written < Len(entries)
                  THEN s.fault.written ELSE Len(entries) - 1
         IN  [s |-> [s EXCEPT !.ledger = SubSeq(entries, 1, n),
                              !.torn = s.fault.torn],
              err |-> "error encoding JSON entry"]
    ELSE [s |-> [s EXCEPT !.ledger = entries, !.torn = FALSE], err |-> ""]

\* Scoring.SaveEntries on the Scoring value and the store of s.
SaveEntries(s) ==
    LET loaded == LoadAll(s)
    IN  IF loaded.err # ""
        THEN [s |-> s, err |-> "could not load scores for saving"]
        ELSE SaveAll(s, updatedEntries(s.Score, loaded.entries))

\* ------------------------------------------------- the card's State value

\* state.NewState: the State of a new card before Game.Init.  storage is the
\* store the Scoring value shares (the entries of the scores file, and
\* whether it ends in a torn entry); saveCalls counts the calls of
\* Score.SaveEntries; swallowed collects the errors that were dropped.
NewState(secretMessage, scoring, opts, storage) ==
    LET enabled == opts.TimerLimit # 0
        auto == IF Len(secretMessage) \div 3 < 10 THEN 10 ELSE Len(secretMessage) \div 3
        limit == IF opts.TimerLimit = -1 THEN auto ELSE opts.TimerLimit
    IN  [Textarea |-> <<>>,
         Mask |-> <<>>,
         Secret |-> secretMessage,
         Pos |-> 0,
         Win |-> FALSE,
         Loss |-> FALSE,
         Revealed |-> FALSE,
         WrongLetter |-> FALSE,
         Score |-> scoring,
         BracketedPositions |-> <<>>,
         FSM |-> "start",
         CurrentChar |-> "",
         TimerEnabled |-> enabled,
         TimeLimit |-> IF enabled THEN limit ELSE 0,
         TimeRemaining |-> IF enabled THEN limit ELSE 0,
         Options |-> opts,
         ledger |-> storage.ledger,
         torn |-> storage.torn,
         fault |-> NoFault,
         swallowed |-> {},
         saveCalls |-> 0]

\* ---------------------------------------------------- secret preparation

SetMin(S) == CHOOSE x \in S : \A y \in S : x <= y

RECURSIVE FindAllStringSubmatchIndex(_, _)
\* The matches of (?s)\[(.*?)\] in str at or after index from, leftmost first
\* and non-overlapping: each is <<start, end>> of group 1 (end exclusive),
\* counted in characters; SetBracketedPositions takes their byte offsets.
FindAllStringSubmatchIndex(str, from) ==
    LET closes(i) == {j \in (i + 1) .. (Len(str) - 1) : At(str, j) = "]"}
        opens == {i \in from .. (Len(str) - 1) : At(str, i) = "[" /\ closes(i) # {}}
    IN  IF opens = {} THEN <<>>
        ELSE LET i == SetMin(opens)
                 j == SetMin(closes(i))
             IN  <<<<i + 1, j>>>> \o FindAllStringSubmatchIndex(str, j + 1)

\* len(bracketRe.ReplaceAllString(str[:n], "")): the brackets before index n.
previousBrackets(str, n) ==
    Cardinality({k \in 0 .. (n - 1) : At(str, k) \in {"[", "]"}})

RECURSIVE Concat(_)
Concat(seqs) == IF seqs = <<>> THEN <<>> ELSE Head(seqs) \o Concat(Tail(seqs))

\* State.SetBracketedPositions
SetBracketedPositions(s) ==
    LET secretStr == s.Secret
        matches == FindAllStringSubmatchIndex(secretStr, 0)
        \* match[2], match[3]: offsets into the string, which are bytes.
        startMatch(m) == ByteOffset(secretStr, m[1])
        endMatch(m) == ByteOffset(secretStr, m[2])
        positionsOf(m) ==
            [k \in 1 .. (endMatch(m) - startMatch(m)) |->
                (startMatch(m) + k - 1) - previousBrackets(secretStr, m[1])]
        positions == Concat([k \in 1 .. Len(matches) |-> positionsOf(matches[k])])
        \* ReplaceAllString(secretStr, "$1"): the delimiters of every match go.
        delimiters == UNION {{matches[k][1] - 1, matches[k][2]} : k \in 1 .. Len(matches)}
        kept == SelectSeq([k \in 1 .. Len(secretStr) |-> k - 1],
                          LAMBDA i : i \notin delimiters)
    IN  [s EXCEPT !.BracketedPositions = positions,
                  !.Secret = [k \in 1 .. Len(kept) |-> At(secretStr, kept[k])]]

\* slices.Contains
Contains(seq, x) == \E k \in 1 .. Len(seq) : seq[k] = x

\* State.InitMask
InitMask(s) ==
    [s EXCEPT !.Mask =
        [k \in 1 .. Len(s.Secret) |->
            IF ShouldIgnore(s.Secret[k]) \/ Contains(s.BracketedPositions, k - 1)
            THEN s.Secret[k]
            ELSE Placeholder]]

\* State.RevealFirstLetters: a letter or digit that follows none is revealed.
RevealFirstLetters(s) ==
    [s EXCEPT !.Mask =
        [k \in 1 .. Len(s.Secret) |->
            IF IsLetterOrDigit(s.Secret[k])
               /\ (k = 1 \/ ~IsLetterOrDigit(s.Secret[k - 1]))
            THEN s.Secret[k]
            ELSE s.Mask[k]]]

\* The subsets of S with exactly n elements.
Choose(S, n) == {T \in SUBSET S : Cardinality(T) = n}

\* State.RevealRandomLetters: every outcome of the shuffle, as a set of States.
RevealRandomLetters(s, n) ==
    LET candidates == {i \in Indices(s.Secret) :
                          At(s.Mask, i) = Placeholder /\ IsLetterOrDigit(At(s.Secret, i))}
        count == IF n > Cardinality(candidates) THEN Cardinality(candidates) ELSE n
    IN  {[s EXCEPT !.Mask = [k \in 1 .. Len(s.Secret) |->
                                IF (k - 1) \in picked THEN s.Secret[k] ELSE s.Mask[k]]]
            : picked \in Choose(candidates, count)}

\* State.RevealRandomWords: every outcome of the shuffle, as a set of States.
RevealRandomWords(s, n) ==
    LET isAlphanum(i) == IsLetterOrDigit(At(s.Secret, i))
        \* wordSpan{start, end}: a maximal run of letters and digits.
        words == {w \in Indices(s.Secret) \X (1 .. Len(s.Secret)) :
                     /\ w[1] < w[2]
                     /\ \A i \in w[1] .. (w[2] - 1) : isAlphanum(i)
                     /\ (w[1] = 0 \/ ~isAlphanum(w[1] - 1))
                     /\ (w[2] = Len(s.Secret) \/ ~isAlphanum(w[2]))}
        count == IF n > Cardinality(words) THEN Cardinality(words) ELSE n
        covered(picked) == UNION {w[1] .. (w[2] - 1) : w \in picked}
    IN  {[s EXCEPT !.Mask = [k \in 1 .. Len(s.Secret) |->
                                IF (k - 1) \in covered(picked) THEN s.Secret[k] ELSE s.Mask[k]]]
            : picked \in Choose(words, count)}

RECURSIVE SkipRevealed_ignorableOnly(_)
\* SkipRevealed, stepping over ignorable and bracketed positions only: the
\* cursor stops on a letter that is already revealed.
SkipRevealed_ignorableOnly(s) ==
    IF s.Pos < Len(s.Secret)
       /\ (\/ ShouldIgnore(At(s.Secret, s.Pos))
           \/ Contains(s.BracketedPositions, s.Pos))
    THEN LET s1 == IF At(s.Mask, s.Pos) = Placeholder
                   THEN [s EXCEPT !.Mask = SetAt(s.Mask, s.Pos, At(s.Secret, s.Pos))]
                   ELSE s
         IN  SkipRevealed_ignorableOnly([s1 EXCEPT !.Pos = @ + 1])
    ELSE s

RECURSIVE SkipRevealed(_)
\* State.SkipRevealed
SkipRevealed(s) ==
    IF s.Pos < Len(s.Secret)
       /\ (\/ ShouldIgnore(At(s.Secret, s.Pos))
           \/ Contains(s.BracketedPositions, s.Pos)
           \/ At(s.Mask, s.Pos) # Placeholder)
    THEN LET s1 == IF At(s.Mask, s.Pos) = Placeholder
                   THEN [s EXCEPT !.Mask = SetAt(s.Mask, s.Pos, At(s.Secret, s.Pos))]
                   ELSE s
         IN  SkipRevealed([s1 EXCEPT !.Pos = @ + 1])
    ELSE s

\* ApplyGameModes without the skip-revealed pass that ends it.
ApplyGameModes_noSkip(s, opts) ==
    LET s1 == IF opts.FirstLetter THEN RevealFirstLetters(s) ELSE s
        S2 == IF opts.NRandom > 0 THEN RevealRandomLetters(s1, opts.NRandom) ELSE {s1}
    IN  UNION {IF opts.NWords > 0 THEN RevealRandomWords(s2, opts.NWords) ELSE {s2}
                  : s2 \in S2}

\* State.ApplyGameModes: every outcome, as a set of States.
ApplyGameModes(s, opts) ==
    LET s1 == IF opts.FirstLetter THEN RevealFirstLetters(s) ELSE s
        S2 == IF opts.NRandom > 0 THEN RevealRandomLetters(s1, opts.NRandom) ELSE {s1}
        S3 == UNION {IF opts.NWords > 0 THEN RevealRandomWords(s2, opts.NWords) ELSE {s2}
                        : s2 \in S2}
    IN  {SkipRevealed(s3) : s3 \in S3}

\* textarea.SetValue / Value: the text area holds the text it was given (the
\* model's characters hold no tab and no line beyond the area's limits).
SetValue(s, text) == [s EXCEPT !.Textarea = text]

\* ------------------------------------------------------ state predicates

IsAtEnd(s) == s.Pos = Len(s.Secret)

IsCorrectLetter(s, ch) ==
    IF s.Pos >= Len(s.Secret) THEN FALSE
    ELSE ToLower(ch) = ToLower(At(s.Secret, s.Pos))

IsIncorrectLetter(s, ch) ==
    IF s.Pos >= Len(s.Secret) THEN TRUE
    ELSE ToLower(ch) # ToLower(At(s.Secret, s.Pos))

GotCompletedWord(s) ==
    ~IsAtEnd(s)
    /\ (At(s.Secret, s.Pos) = " " \/ isPunctuation(At(s.Secret, s.Pos)))

GotCorrectMessage(s) == s.Secret = s.Textarea

IsGameOver(s) == s.Pos >= Len(s.Secret) \/ s.Score.CurrentScore < 0

LostGame(s) == s.Score.CurrentScore < 0 \/ (IsGameOver(s) /\ s.WrongLetter)

WonGame(s) == ~LostGame(s)

\* ---------------------------------------------------------------- the FSM

\* getStateTransitions without the gameEnd transition out of gotMatch.
getStateTransitions_noEndFromMatch ==
    {[Name |-> "initGame", Src |-> "start", Dst |-> "idle"],
     [Name |-> "input", Src |-> "idle", Dst |-> "checkGameState"],
     [Name |-> "gameEnd", Src |-> "checkGameState", Dst |-> "endState"],
     [Name |-> "gameEnd", Src |-> "evaluating", Dst |-> "endState"],
     [Name |-> "gameEnd", Src |-> "revealingAll", Dst |-> "endState"],
     [Name |-> "proceed", Src |-> "checkGameState", Dst |-> "processChar"],
     [Name |-> "revealAll", Src |-> "checkGameState", Dst |-> "revealingAll"],
     [Name |-> "ignore", Src |-> "processChar", Dst |-> "evaluating"],
     [Name |-> "reveal", Src |-> "processChar", Dst |-> "revealNextChar"],
     [Name |-> "check", Src |-> "processChar", Dst |-> "checkCorrectness"],
     [Name |-> "revealed", Src |-> "revealNextChar", Dst |-> "updateMask"],
     [Name |-> "match", Src |-> "checkCorrectness", Dst |-> "gotMatch"],
     [Name |-> "mismatch", Src |-> "checkCorrectness", Dst |-> "noMatch"],
     [Name |-> "matched", Src |-> "gotMatch", Dst |-> "updateMask"],
     [Name |-> "notMatched", Src |-> "noMatch", Dst |-> "updateScore"],
     [Name |-> "advance", Src |-> "updateMask", Dst |-> "advancing"],
     [Name |-> "advanced", Src |-> "advancing", Dst |-> "evaluating"],
     [Name |-> "scoreCalculated", Src |-> "updateScore", Dst |-> "evaluating"],
     [Name |-> "wait", Src |-> "evaluating", Dst |-> "idle"],
     [Name |-> "tick", Src |-> "idle", Dst |-> "timeCheck"],
     [Name |-> "timePassed", Src |-> "timeCheck", Dst |-> "idle"],
     [Name |-> "timeExpired", Src |-> "timeCheck", Dst |-> "endState"]}

\* getStateTransitions: the event table, one record per (event, source).
getStateTransitions ==
    {[Name |-> "initGame", Src |-> "start", Dst |-> "idle"],
     [Name |-> "input", Src |-> "idle", Dst |-> "checkGameState"],
     [Name |-> "gameEnd", Src |-> "checkGameState", Dst |-> "endState"],
     [Name |-> "gameEnd", Src |-> "evaluating", Dst |-> "endState"],
     [Name |-> "gameEnd", Src |-> "revealingAll", Dst |-> "endState"],
     [Name |-> "proceed", Src |-> "checkGameState", Dst |-> "processChar"],
     [Name |-> "revealAll", Src |-> "checkGameState", Dst |-> "revealingAll"],
     [Name |-> "ignore", Src |-> "processChar", Dst |-> "evaluating"],
     [Name |-> "reveal", Src |-> "processChar", Dst |-> "revealNextChar"],
     [Name |-> "check", Src |-> "processChar", Dst |-> "checkCorrectness"],
     [Name |-> "revealed", Src |-> "revealNextChar", Dst |-> "updateMask"],
     [Name |-> "match", Src |-> "checkCorrectness", Dst |-> "gotMatch"],
     [Name |-> "mismatch", Src |-> "checkCorrectness", Dst |-> "noMatch"],
     [Name |-> "matched", Src |-> "gotMatch", Dst |-> "updateMask"],
     [Name |-> "gameEnd", Src |-> "gotMatch", Dst |-> "endState"],
     [Name |-> "notMatched", Src |-> "noMatch", Dst |-> "updateScore"],
     [Name |-> "advance", Src |-> "updateMask", Dst |-> "advancing"],
     [Name |-> "advanced", Src |-> "advancing", Dst |-> "evaluating"],
     [Name |-> "scoreCalculated", Src |-> "updateScore", Dst |-> "evaluating"],
     [Name |-> "wait", Src |-> "evaluating", Dst |-> "idle"],
     [Name |-> "tick", Src |-> "idle", Dst |-> "timeCheck"],
     [Name |-> "timePassed", Src |-> "timeCheck", Dst |-> "idle"],
     [Name |-> "timeExpired", Src |-> "timeCheck", Dst |-> "endState"]}

RECURSIVE Event(_, _, _)

\* enter_timeCheck that lets the clock run below zero before the loss.
enter_timeCheck_belowZero(s) ==
    LET s1 == [s EXCEPT !.TimeRemaining = @ - 1]
    IN  IF s1.TimeRemaining < 0
        THEN Event([s1 EXCEPT !.Loss = TRUE], "timeExpired", <<>>)
        ELSE Event(s1, "timePassed", <<>>)

enter_timeCheck(s) ==
    LET s1 == [s EXCEPT !.TimeRemaining = @ - 1]
    IN  IF s1.TimeRemaining <= 0
        THEN Event([s1 EXCEPT !.Loss = TRUE], "timeExpired", <<>>)
        ELSE Event(s1, "timePassed", <<>>)

\* enter_checkGameState, without the exit request.
enter_checkGameState_noExit(s, args) ==
    LET s1 == [s EXCEPT !.CurrentChar = IF Len(args) > 0 THEN args[1] ELSE ""]
    IN  IF GotCorrectMessage(s1)
        THEN Event([s1 EXCEPT !.Win = TRUE], "gameEnd", <<>>)
        ELSE IF s1.Score.CurrentScore < 0
        THEN Event([s1 EXCEPT !.Loss = TRUE], "gameEnd", <<>>)
        ELSE IF IsRevealRequested(s1.CurrentChar)
        THEN Event(s1, "revealAll", <<>>)
        ELSE Event(s1, "proceed", <<>>)

enter_checkGameState(s, args) ==
    LET s1 == [s EXCEPT !.CurrentChar = IF Len(args) > 0 THEN args[1] ELSE ""]
    IN  IF GotCorrectMessage(s1)
        THEN Event([s1 EXCEPT !.Win = TRUE], "gameEnd", <<>>)
        ELSE IF IsExitRequested(s1.CurrentChar)
        THEN Event([s1 EXCEPT !.Loss = TRUE], "gameEnd", <<>>)
        ELSE IF s1.Score.CurrentScore < 0
        THEN Event([s1 EXCEPT !.Loss = TRUE], "gameEnd", <<>>)
        ELSE IF IsRevealRequested(s1.CurrentChar)
        THEN Event(s1, "revealAll", <<>>)
        ELSE Event(s1, "proceed", <<>>)

\* enter_revealingAll, putting the mask back to what InitMask gives instead of
\* uncovering it.
enter_revealingAll_remask(s) ==
    LET s1 == InitMask(s)
        s2 == SetValue(s1, s1.Mask)
    IN  Event([s2 EXCEPT !.Loss = TRUE, !.Revealed = TRUE], "gameEnd", <<>>)

\* enter_revealingAll, not setting the Revealed flag.
enter_revealingAll_unflagged(s) ==
    LET s1 == [s EXCEPT !.Mask = s.Secret]
        s2 == SetValue(s1, s1.Mask)
    IN  Event([s2 EXCEPT !.Loss = TRUE], "gameEnd", <<>>)

\* enter_revealingAll, ending the game without declaring it lost.
enter_revealingAll_noLoss(s) ==
    LET s1 == [s EXCEPT !.Mask = s.Secret]
        s2 == SetValue(s1, s1.Mask)
    IN  Event([s2 EXCEPT !.Revealed = TRUE], "gameEnd", <<>>)

enter_revealingAll(s) ==
    LET s1 == [s EXCEPT !.Mask = s.Secret]
        s2 == SetValue(s1, s1.Mask)
    IN  Event([s2 EXCEPT !.Loss = TRUE, !.Revealed = TRUE], "gameEnd", <<>>)

RECURSIVE TypedThrough(_, _)
\* The backward scan of enter_processChar from index i: TRUE when the typed
\* character is found in the revealed run that ends just before the cursor.
TypedThrough(s, i) ==
    IF i < 0 THEN FALSE
    ELSE IF At(s.Mask, i) = Placeholder THEN FALSE
    ELSE IF ShouldIgnore(At(s.Secret, i)) THEN FALSE
    ELSE IF EqualFold(At(s.Secret, i), s.CurrentChar) THEN TRUE
    ELSE TypedThrough(s, i - 1)

\* enter_processChar, without the backward scan for a typed-through key.
enter_processChar_noScan(s) ==
    LET s1 == SkipRevealed(s)
        s2 == SetValue(s1, s1.Mask)
    IN  IF s2.Pos >= Len(s2.Secret)
        THEN IF s2.Mask = s2.Secret
             THEN LET s3 == [s2 EXCEPT !.Win = TRUE,
                                      !.Score = ScoreEvent(@, "messageBonus")]
                      s4 == IF s3.TimerEnabled
                            THEN [s3 EXCEPT !.Score = AddTimeBonus(@, s3.TimeRemaining)]
                            ELSE s3
                  IN  Event(s4, "gameEnd", <<>>)
             ELSE Event(s2, "ignore", <<>>)
        ELSE IF IsCorrectLetter(s2, s2.CurrentChar)
        THEN Event(s2, "check", <<>>)
        ELSE IF ShouldIgnore(s2.CurrentChar)
        THEN Event(s2, "ignore", <<>>)
        ELSE IF s2.CurrentChar = "?"
        THEN Event(s2, "reveal", <<>>)
        ELSE Event(s2, "check", <<>>)

\* enter_processChar, with the backward scan ahead of the priority test.
enter_processChar_scanFirst(s) ==
    LET s1 == SkipRevealed(s)
        s2 == SetValue(s1, s1.Mask)
    IN  IF s2.Pos >= Len(s2.Secret)
        THEN IF s2.Mask = s2.Secret
             THEN LET s3 == [s2 EXCEPT !.Win = TRUE,
                                      !.Score = ScoreEvent(@, "messageBonus")]
                      s4 == IF s3.TimerEnabled
                            THEN [s3 EXCEPT !.Score = AddTimeBonus(@, s3.TimeRemaining)]
                            ELSE s3
                  IN  Event(s4, "gameEnd", <<>>)
             ELSE Event(s2, "ignore", <<>>)
        ELSE IF TypedThrough(s2, s2.Pos - 1)
        THEN Event(s2, "ignore", <<>>)
        ELSE IF IsCorrectLetter(s2, s2.CurrentChar)
        THEN Event(s2, "check", <<>>)
        ELSE IF ShouldIgnore(s2.CurrentChar)
        THEN Event(s2, "ignore", <<>>)
        ELSE IF s2.CurrentChar = "?"
        THEN Event(s2, "reveal", <<>>)
        ELSE Event(s2, "check", <<>>)

enter_processChar(s) ==
    LET s1 == SkipRevealed(s)
        s2 == SetValue(s1, s1.Mask)
    IN  IF s2.Pos >= Len(s2.Secret)
        THEN IF s2.Mask = s2.Secret
             THEN LET s3 == [s2 EXCEPT !.Win = TRUE,
                                      !.Score = ScoreEvent(@, "messageBonus")]
                      s4 == IF s3.TimerEnabled
                            THEN [s3 EXCEPT !.Score = AddTimeBonus(@, s3.TimeRemaining)]
                            ELSE s3
                  IN  Event(s4, "gameEnd", <<>>)
             ELSE Event(s2, "ignore", <<>>)
        ELSE IF IsCorrectLetter(s2, s2.CurrentChar)
        THEN Event(s2, "check", <<>>)
        ELSE IF TypedThrough(s2, s2.Pos - 1)
        THEN Event(s2, "ignore", <<>>)
        ELSE IF ShouldIgnore(s2.CurrentChar)
        THEN Event(s2, "ignore", <<>>)
        ELSE IF s2.CurrentChar = "?"
        THEN Event(s2, "reveal", <<>>)
        ELSE Event(s2, "check", <<>>)

enter_checkCorrectness(s) ==
    IF s.WrongLetter
    THEN IF IsCorrectLetter(s, s.CurrentChar)
         THEN Event([s EXCEPT !.WrongLetter = FALSE], "match", <<>>)
         ELSE Event(s, "mismatch", <<>>)
    ELSE IF IsCorrectLetter(s, s.CurrentChar)
         THEN Event(s, "match", <<>>)
         ELSE IF IsIncorrectLetter(s, s.CurrentChar)
         THEN Event(s, "mismatch", <<>>)
         ELSE Event(s, "ignore", <<>>)

\* enter_gotMatch, writing the key that was typed into the mask instead of the
\* secret's character.
enter_gotMatch_typedKey(s) ==
    LET s1 == [s EXCEPT !.Mask = SetAt(s.Mask, s.Pos, s.CurrentChar),
                        !.Score = ScoreEvent(@, "rightLetter")]
        s2 == IF GotCompletedWord(s1)
              THEN [s1 EXCEPT !.Score = ScoreEvent(@, "wordBonus")]
              ELSE s1
    IN  IF s2.Mask = s2.Secret
        THEN LET s3 == [s2 EXCEPT !.Win = TRUE,
                                 !.Score = ScoreEvent(@, "messageBonus")]
                 s4 == IF s3.TimerEnabled
                       THEN [s3 EXCEPT !.Score = AddTimeBonus(@, s3.TimeRemaining)]
                       ELSE s3
             IN  Event(SetValue(s4, s4.Mask), "gameEnd", <<>>)
        ELSE Event(s2, "matched", <<>>)

enter_gotMatch(s) ==
    LET s1 == [s EXCEPT !.Mask = SetAt(s.Mask, s.Pos, At(s.Secret, s.Pos)),
                        !.Score = ScoreEvent(@, "rightLetter")]
        s2 == IF GotCompletedWord(s1)
              THEN [s1 EXCEPT !.Score = ScoreEvent(@, "wordBonus")]
              ELSE s1
    IN  IF s2.Mask = s2.Secret
        THEN LET s3 == [s2 EXCEPT !.Win = TRUE,
                                 !.Score = ScoreEvent(@, "messageBonus")]
                 s4 == IF s3.TimerEnabled
                       THEN [s3 EXCEPT !.Score = AddTimeBonus(@, s3.TimeRemaining)]
                       ELSE s3
             IN  Event(SetValue(s4, s4.Mask), "gameEnd", <<>>)
        ELSE Event(s2, "matched", <<>>)

\* enter_noMatch, taking points for a mismatch only when the flag is not yet
\* set: a further one is counted and costs nothing.
enter_noMatch_once(s) ==
    IF s.WrongLetter
    THEN Event([s EXCEPT !.Score.ErrorCount = @ + 1], "notMatched", <<>>)
    ELSE Event([s EXCEPT !.WrongLetter = TRUE,
                         !.Score = ScoreEvent(@, "wrongLetter")], "notMatched", <<>>)

\* enter_noMatch, taking the points without raising the wrong-letter flag.
enter_noMatch_unflagged(s) ==
    Event([s EXCEPT !.Score = ScoreEvent(@, "wrongLetter")], "notMatched", <<>>)

\* enter_noMatch, moving on past the position that was not matched.
enter_noMatch_moveOn(s) ==
    Event([s EXCEPT !.Pos = @ + 1,
                    !.Score = ScoreEvent(@, "wrongLetter")], "notMatched", <<>>)

enter_noMatch(s) ==
    Event([s EXCEPT !.WrongLetter = TRUE,
                    !.Score = ScoreEvent(@, "wrongLetter")], "notMatched", <<>>)

RECURSIVE NextHidden(_, _)
\* The tempPos loop of enter_revealNextChar.
NextHidden(s, tempPos) ==
    IF tempPos < Len(s.Secret)
       /\ (ShouldIgnore(At(s.Secret, tempPos)) \/ At(s.Mask, tempPos) # Placeholder)
    THEN NextHidden(s, tempPos + 1)
    ELSE tempPos

\* enter_revealNextChar, uncovering the position without scoring the hint.
enter_revealNextChar_free(s) ==
    LET tempPos == NextHidden(s, s.Pos)
        s1 == IF tempPos < Len(s.Secret) /\ At(s.Mask, tempPos) = Placeholder
              THEN [s EXCEPT !.Mask = SetAt(s.Mask, tempPos, At(s.Secret, tempPos))]
              ELSE s
    IN  Event(s1, "revealed", <<>>)

\* enter_revealNextChar, scoring the hint without uncovering the position.
enter_revealNextChar_charged(s) ==
    LET tempPos == NextHidden(s, s.Pos)
        s1 == IF tempPos < Len(s.Secret) /\ At(s.Mask, tempPos) = Placeholder
              THEN [s EXCEPT !.Score = ScoreEvent(@, "hint")]
              ELSE s
    IN  Event(s1, "revealed", <<>>)

enter_revealNextChar(s) ==
    LET tempPos == NextHidden(s, s.Pos)
        s1 == IF tempPos < Len(s.Secret) /\ At(s.Mask, tempPos) = Placeholder
              THEN [s EXCEPT !.Mask = SetAt(s.Mask, tempPos, At(s.Secret, tempPos)),
                             !.Score = ScoreEvent(@, "hint")]
              ELSE s
    IN  Event(s1, "revealed", <<>>)

enter_updateMask(s) == Event(SetValue(s, s.Mask), "advance", <<>>)

\* enter_advancing, leaving the cursor where it is.
enter_advancing_stay(s) == Event(s, "advanced", <<>>)

\* enter_advancing, stepping over the position after the cursor as well.
enter_advancing_twice(s) == Event([s EXCEPT !.Pos = @ + 2], "advanced", <<>>)

\* enter_advancing, running the skip-revealed pass at once.
enter_advancing_eager(s) == Event(SkipRevealed([s EXCEPT !.Pos = @ + 1]), "advanced", <<>>)

enter_advancing(s) == Event([s EXCEPT !.Pos = @ + 1], "advanced", <<>>)

\* enter_updateScore, firing the event of enter_advancing, which the state
\* updateScore has no transition for.
enter_updateScore_advanced(s) == Event(SetValue(s, s.Mask), "advanced", <<>>)

enter_updateScore(s) == Event(SetValue(s, s.Mask), "scoreCalculated", <<>>)

\* enter_evaluating, ending the game at the end of the text only.
enter_evaluating_atEndOnly(s) ==
    IF s.Pos >= Len(s.Secret)
    THEN IF LostGame(s)
         THEN Event([s EXCEPT !.Loss = TRUE], "gameEnd", <<>>)
         ELSE Event([s EXCEPT !.Win = TRUE,
                              !.Score = ScoreEvent(@, "messageBonus")], "gameEnd", <<>>)
    ELSE Event(s, "wait", <<>>)

enter_evaluating(s) ==
    IF IsGameOver(s)
    THEN IF LostGame(s)
         THEN Event([s EXCEPT !.Loss = TRUE], "gameEnd", <<>>)
         ELSE Event([s EXCEPT !.Win = TRUE,
                              !.Score = ScoreEvent(@, "messageBonus")], "gameEnd", <<>>)
    ELSE IF s.Score.CurrentScore < 0
    THEN Event([s EXCEPT !.Loss = TRUE], "gameEnd", <<>>)
    ELSE Event(s, "wait", <<>>)

enter_endState(s) ==
    LET saved == SaveEntries(s)
    IN  [saved.s EXCEPT !.saveCalls = @ + 1,
                        !.swallowed = IF saved.err # "" THEN @ \cup {saved.err} ELSE @]

\* getStateCallbacks: the enter_<state> callback of a state, if it has one.
getStateCallbacks(state, s, args) ==
    CASE state = "timeCheck" -> enter_timeCheck(s)
      [] state = "checkGameState" -> enter_checkGameState(s, args)
      [] state = "revealingAll" -> enter_revealingAll(s)
      [] state = "processChar" -> enter_processChar(s)
      [] state = "checkCorrectness" -> enter_checkCorrectness(s)
      [] state = "gotMatch" -> enter_gotMatch(s)
      [] state = "noMatch" -> enter_noMatch(s)
      [] state = "revealNextChar" -> enter_revealNextChar(s)
      [] state = "updateMask" -> enter_updateMask(s)
      [] state = "advancing" -> enter_advancing(s)
      [] state = "updateScore" -> enter_updateScore(s)
      [] state = "evaluating" -> enter_evaluating(s)
      [] state = "endState" -> enter_endState(s)
      [] OTHER -> s

\* fsm.Event: an event the current state has no transition for is an error
\* the callers drop, and changes nothing; otherwise the state changes and the
\* destination's enter callback runs, which may fire the next event.
Event(s, name, args) ==
    LET ts == {t \in getStateTransitions : t.Name = name /\ t.Src = s.FSM}
    IN  IF ts = {} THEN s
        ELSE LET dst == (CHOOSE t \in ts : TRUE).Dst
             IN  getStateCallbacks(dst, [s EXCEPT !.FSM = dst], args)

\* ---------------------------------------------------------------- the game

\* game.NewGame followed by Game.Init: every outcome, as a set of States.
GameInit(secretMessage, scoring, opts, storage) ==
    LET s0 == NewState(secretMessage, scoring, opts, storage)
        s1 == InitMask(SetBracketedPositions(s0))
    IN  {Event(SetValue(s2, s2.Mask), "initGame", <<>>) : s2 \in ApplyGameModes(s1, s1.Options)}

\* Game.HandleTick that lets the clock of an ended game run on.
GameHandleTick_clockRunsOn(s) ==
    IF ~s.TimerEnabled THEN s
    ELSE IF s.Win \/ s.Loss THEN [s EXCEPT !.TimeRemaining = @ - 1]
    ELSE Event(s, "tick", <<>>)

\* Game.HandleTick
GameHandleTick(s) ==
    IF s.Win \/ s.Loss \/ ~s.TimerEnabled THEN s
    ELSE Event(s, "tick", <<>>)

\* Game.HandleKeyPress
GameHandleKeyPress(s, ch) ==
    IF s.Win \/ s.Loss THEN s
    ELSE Event(s, "input", <<ch>>)

\* ------------------------------------------------------------ the inputs

RECURSIVE SeqsUpTo(_, _)
\* The sequences over S of length at most n.
SeqsUpTo(S, n) ==
    IF n = 0 THEN {<<>>}
    ELSE LET shorter == SeqsUpTo(S, n - 1)
         IN  shorter \cup {Append(t, c) : t \in shorter, c \in S}

\* text with one bracket-annotated span around its indices i .. j-1.
WithSpan(text, i, j) ==
    SubSeq(text, 1, i) \o <<"[">> \o SubSeq(text, i + 1, j) \o <<"]">>
        \o SubSeq(text, j + 1, Len(text))

\* The card contents a session may load: non-empty plain texts, and shorter
\* texts with one bracket-annotated (pre-revealed) span.
Cards ==
    LET spans(t) == {w \in (0 .. Len(t)) \X (0 .. Len(t)) : w[1] < w[2]}
    IN  (SeqsUpTo(SecretChars, MaxLen) \ {<<>>})
            \cup UNION {{WithSpan(t, w[1], w[2]) : w \in spans(t)}
                           : t \in SeqsUpTo(SecretChars, MaxBracketedLen)}

\* The GameOptions a card's game may be constructed with: no timer or a fixed
\* limit, and the three reveal modes.
GameOptions ==
    [TimerLimit : {0, MaxTimeLimit},
     FirstLetter : BOOLEAN,
     NRandom : 0 .. MaxNRandom,
     NWords : 0 .. MaxNWords]

\* ------------------------------------------------------------ the session

RECURSIVE totalLen(_)
\* The first loop of NewSession's automatic branch: the summed lengths.
totalLen(cards) ==
    IF cards = <<>> THEN 0 ELSE Len(Head(cards)) + totalLen(Tail(cards))

\* NewSession's automatic budget taken from the summed lengths: a third of
\* the whole text, at least 10.
autoTime_ofTotalLen(cards) ==
    IF totalLen(cards) \div 3 < 10 THEN 10 ELSE totalLen(cards) \div 3

RECURSIVE autoTime(_)
\* NewSession's automatic budget: per card a third of its length, at least 10.
autoTime(cards) ==
    IF cards = <<>> THEN 0
    ELSE (IF Len(Head(cards)) \div 3 < 10 THEN 10 ELSE Len(Head(cards)) \div 3)
             + autoTime(Tail(cards))

\* rand.Shuffle: every order of the cards.
Shuffle(cards) ==
    LET n == Len(cards)
        perms == {f \in [1 .. n -> 1 .. n] : \A i, j \in 1 .. n : f[i] = f[j] => i = j}
    IN  {[i \in 1 .. n |-> cards[f[i]]] : f \in perms}

\* Session.NextGame that gives every card the whole budget.
NextGame_fullBudget(sess, store, now, fault) ==
    IF sess.CurrentIndex >= Len(sess.Cards)
    THEN {[sess |-> sess, err |-> "no more cards"]}
    ELSE LET card == At(sess.Cards, sess.CurrentIndex)
             gameOpts == [sess.GameOptions EXCEPT !.TimerLimit = sess.TotalTimeLimit]
             loaded == LoadAll([ledger |-> store.ledger, torn |-> store.torn,
                                fault |-> fault])
         IN  IF loaded.err # ""
             THEN {[sess |-> sess, err |-> "could not load score history"]}
             ELSE {[sess |-> [sess EXCEPT !.CurrentGame = g], err |-> ""] :
                      g \in GameInit(card, InitScoring(card, "Title", loaded.entries, now),
                                     gameOpts, store)}

\* Session.NextGame with the scores file in state `store`, at time `now`:
\* every outcome, as the Session value after it and the error returned.
NextGame(sess, store, now, fault) ==
    IF sess.CurrentIndex >= Len(sess.Cards)
    THEN {[sess |-> sess, err |-> "no more cards"]}
    ELSE LET card == At(sess.Cards, sess.CurrentIndex)
             gameOpts == [sess.GameOptions EXCEPT
                              !.TimerLimit = IF sess.TotalTimeLimit > 0
                                             THEN sess.TimeRemaining ELSE 0]
             loaded == LoadAll([ledger |-> store.ledger, torn |-> store.torn,
                                fault |-> fault])
         IN  IF loaded.err # ""
             THEN {[sess |-> sess, err |-> "could not load score history"]}
             ELSE {[sess |-> [sess EXCEPT !.CurrentGame = g], err |-> ""] :
                      g \in GameInit(card, InitScoring(card, "Title", loaded.entries, now),
                                     gameOpts, store)}

\* game.NewSession: every outcome.  CurrentGame is <<>> (nil) until the first
\* NextGame.
NewSession(cards, opts, store, randomize, now, fault) ==
    LET orders == IF Len(cards) > 1 /\ randomize THEN Shuffle(cards) ELSE {cards}
        total == IF opts.TimerLimit > 0 THEN opts.TimerLimit
                 ELSE IF opts.TimerLimit = -1 THEN autoTime(cards)
                 ELSE 0
    IN  UNION {NextGame([Cards |-> order,
                         CurrentIndex |-> 0,
                         CurrentGame |-> <<>>,
                         GameOptions |-> opts,
                         TotalScore |-> 0,
                         TotalTimeLimit |-> total,
                         TimeRemaining |-> total], store, now, fault) : order \in orders}

\* Session.Update that adds the score of a lost game as well.
Update_anyEnd(sess, now, fault) ==
    LET g == sess.CurrentGame
        s1 == IF sess.TotalTimeLimit > 0
              THEN [sess EXCEPT !.TimeRemaining = g.TimeRemaining] ELSE sess
    IN  IF g.Win \/ g.Loss
        THEN LET s2 == [s1 EXCEPT !.TotalScore = @ + g.Score.CurrentScore,
                                  !.CurrentIndex = IF g.Win THEN @ + 1 ELSE @]
             IN  IF g.Win /\ s2.CurrentIndex < Len(s2.Cards)
                 THEN {[sess |-> r.sess, dropped |-> r.err] :
                          r \in NextGame(s2, [ledger |-> g.ledger, torn |-> g.torn],
                                         now, fault)}
                 ELSE {[sess |-> s2, dropped |-> ""]}
        ELSE {[sess |-> s1, dropped |-> ""]}

\* Session.Update that gives the session its whole budget back on a won card.
Update_refilled(sess, now, fault) ==
    LET g == sess.CurrentGame
        s1 == IF sess.TotalTimeLimit > 0
              THEN [sess EXCEPT !.TimeRemaining = g.TimeRemaining] ELSE sess
    IN  IF g.Win
        THEN LET s2 == [s1 EXCEPT !.TotalScore = @ + g.Score.CurrentScore,
                                  !.CurrentIndex = @ + 1,
                                  !.TimeRemaining = sess.TotalTimeLimit]
             IN  IF s2.CurrentIndex < Len(s2.Cards)
                 THEN {[sess |-> r.sess, dropped |-> r.err] :
                          r \in NextGame(s2, [ledger |-> g.ledger, torn |-> g.torn],
                                         now, fault)}
                 ELSE {[sess |-> s2, dropped |-> ""]}
        ELSE {[sess |-> s1, dropped |-> ""]}

\* Session.Update: every outcome, as the Session value after it and the error
\* of NextGame that it drops.
Update(sess, now, fault) ==
    LET g == sess.CurrentGame
        s1 == IF sess.TotalTimeLimit > 0
              THEN [sess EXCEPT !.TimeRemaining = g.TimeRemaining] ELSE sess
    IN  IF g.Win
        THEN LET s2 == [s1 EXCEPT !.TotalScore = @ + g.Score.CurrentScore,
                                  !.CurrentIndex = @ + 1]
             IN  IF s2.CurrentIndex < Len(s2.Cards)
                 THEN {[sess |-> r.sess, dropped |-> r.err] :
                          r \in NextGame(s2, [ledger |-> g.ledger, torn |-> g.torn],
                                         now, fault)}
                 ELSE {[sess |-> s2, dropped |-> ""]}
        ELSE {[sess |-> s1, dropped |-> ""]}

\* Session.IsFinished
IsFinished(sess) == sess.CurrentIndex >= Len(sess.Cards)

\* Session.IsSessionLoss
IsSessionLoss(sess) == sess.CurrentGame.Loss

\* main's test after a program has run, ending the session on every loss.
breaksOnLoss_anyLoss(sess) == IsSessionLoss(sess)

\* main's test after a program has run: a loss that was no forced reveal
\* ends the session.
breaksOnLoss(sess) == IsSessionLoss(sess) /\ ~sess.CurrentGame.Revealed

\* The body of main's loop after p.Run has returned: every outcome, as the
\* Session value, whether the loop was left, and what was printed.
mainLoop(sess, now, fault) ==
    IF breaksOnLoss(sess)
    THEN {[sess |-> sess, done |-> TRUE, printed |-> ""]}
    ELSE LET s1 == [sess EXCEPT !.CurrentIndex = @ + 1]
             g == sess.CurrentGame
         IN  IF IsFinished(s1)
             THEN {[sess |-> s1, done |-> TRUE, printed |-> ""]}
             ELSE {[sess |-> r.sess,
                    done |-> r.err # "",
                    printed |-> IF r.err # "" THEN "Error preparing next game" ELSE ""] :
                      r \in NextGame(s1, [ledger |-> g.ledger, torn |-> g.torn], now, fault)}

\* The card lists a session may load, and the options it may be given.
SessionTexts == SeqsUpTo({"A"}, MaxCardLen) \ {<<>>}

SessionCards == SeqsUpTo(SessionTexts, MaxCards) \ {<<>>}

SessionOptions ==
    [TimerLimit : {0, MaxTimeLimit}, FirstLetter : BOOLEAN, NRandom : {0}, NWords : {0}]

\* time.Now() of a moment not before the second ts, the clock showing at
\* most MaxClock.
NowAfter(ts) == {t \in 0 .. MaxClock : t >= ts /\ t <= ts + 1}

\* ----------------------------------------------------------- the machine

VARIABLES
    Textarea,            \* State.Textarea's value
    Mask,                \* State.Mask
    Secret,              \* State.Secret
    Pos,                 \* State.Pos
    Win,                 \* State.Win
    Loss,                \* State.Loss
    Revealed,            \* State.Revealed
    WrongLetter,         \* State.WrongLetter
    Score,               \* State.Score
    BracketedPositions,  \* State.BracketedPositions
    FSM,                 \* State.FSM's current state
    TimerEnabled,        \* State.TimerEnabled
    TimeLimit,           \* State.TimeLimit
    TimeRemaining,       \* State.TimeRemaining
    ledger,              \* the entries the ScoreStorage holds
    torn,                \* the scores file ends in a torn entry
    saveCalls,           \* history: the calls of Score.SaveEntries so far
    swallowed,           \* history: the errors dropped so far
    cards,               \* Session.Cards
    CurrentIndex,        \* Session.CurrentIndex
    options,             \* Session.GameOptions
    TotalScore,          \* Session.TotalScore
    TotalTimeLimit,      \* Session.TotalTimeLimit
    SessionTimeRemaining, \* Session.TimeRemaining
    Quitting,            \* LocalState.Quitting
    quit,                \* the quit message in flight: "" (none), "QuitMsg",
                         \* "tea.Quit" (from the QuitMsg), "ctrl+c" (tea.Quit
                         \* from the exit key)
    ticking,             \* a TickMsg is scheduled
    main,                \* "card" (one card's game, no session), "run" (a
                         \* program runs), "done" (main's loop was left)
    printed,             \* the error main printed
    gameCard,            \* history: the index of the card of CurrentGame
    runCard,             \* history: the index of the card the running program
                         \* was started for
    wonCards,            \* history: <<index, final score>> of the cards won
    typed,               \* history: when >= 0, the keys pressed so far are the
                         \* first `typed` characters of Secret, in any case;
                         \* -1 when they are not, or not tracked
    mask0                \* history: the mask Game.Init left, when tracked

gameVars == <<Textarea, Mask, Secret, Pos, Win, Loss, Revealed, WrongLetter, Score,
              BracketedPositions, FSM, TimerEnabled, TimeLimit, TimeRemaining,
              ledger, torn, saveCalls>>

sessionVars == <<cards, CurrentIndex, options, TotalScore, TotalTimeLimit,
                 SessionTimeRemaining>>

programVars == <<Quitting, quit, ticking, main, printed>>

historyVars == <<gameCard, runCard, wonCards>>

vars == <<gameVars, swallowed, sessionVars, programVars, historyVars, typed, mask0>>

\* The State value the variables hold.  State.CurrentChar and State.Options
\* are no variables: every input assigns CurrentChar before anything reads
\* it, and Options is read by Game.Init alone.
State ==
    [Textarea |-> Textarea, Mask |-> Mask, Secret |-> Secret, Pos |-> Pos,
     Win |-> Win, Loss |-> Loss, Revealed |-> Revealed, WrongLetter |-> WrongLetter,
     Score |-> Score, BracketedPositions |-> BracketedPositions, FSM |-> FSM,
     CurrentChar |-> "", TimerEnabled |-> TimerEnabled,
     TimeLimit |-> TimeLimit, TimeRemaining |-> TimeRemaining,
     ledger |-> ledger, torn |-> torn, fault |-> NoFault,
     swallowed |-> swallowed, saveCalls |-> saveCalls]

\* The variables hold the State value s (in the next state).
Becomes(s) ==
    /\ Textarea' = s.Textarea
    /\ Mask' = s.Mask
    /\ Secret' = s.Secret
    /\ Pos' = s.Pos
    /\ Win' = s.Win
    /\ Loss' = s.Loss
    /\ Revealed' = s.Revealed
    /\ WrongLetter' = s.WrongLetter
    /\ Score' = s.Score
    /\ BracketedPositions' = s.BracketedPositions
    /\ FSM' = s.FSM
    /\ TimerEnabled' = s.TimerEnabled
    /\ TimeLimit' = s.TimeLimit
    /\ TimeRemaining' = s.TimeRemaining
    /\ ledger' = s.ledger
    /\ torn' = s.torn
    /\ saveCalls' = s.saveCalls

\* The variables hold the State value s (in this state).
Holds(s) ==
    /\ Textarea = s.Textarea
    /\ Mask = s.Mask
    /\ Secret = s.Secret
    /\ Pos = s.Pos
    /\ Win = s.Win
    /\ Loss = s.Loss
    /\ Revealed = s.Revealed
    /\ WrongLetter = s.WrongLetter
    /\ Score = s.Score
    /\ BracketedPositions = s.BracketedPositions
    /\ FSM = s.FSM
    /\ TimerEnabled = s.TimerEnabled
    /\ TimeLimit = s.TimeLimit
    /\ TimeRemaining = s.TimeRemaining
    /\ ledger = s.ledger
    /\ torn = s.torn
    /\ saveCalls = s.saveCalls

\* No scores file yet.
NoStore == [ledger |-> <<>>, torn |-> FALSE]

\* One card's game on its own: no session around it.
NoSession ==
    /\ cards = <<>>
    /\ CurrentIndex = 0
    /\ options = <<>>
    /\ TotalScore = 0
    /\ TotalTimeLimit = 0
    /\ SessionTimeRemaining = 0
    /\ Quitting = FALSE
    /\ quit = ""
    /\ ticking = FALSE
    /\ main = "card"
    /\ printed = ""
    /\ gameCard = 0
    /\ runCard = 0
    /\ wonCards = {}

\* A card is loaded and its game constructed (NewGame, Init) on an empty ledger.
NewCard ==
    /\ \E content \in Cards, opts \in GameOptions :
           \E s \in GameInit(content, InitScoring(content, "Title", <<>>, 0), opts, NoStore) :
               Holds(s)
    /\ swallowed = {}
    /\ NoSession

Init ==
    /\ NewCard
    /\ typed = -1
    /\ mask0 = <<>>

\* The same, with the history of the keys pressed tracked.
InitTyped ==
    /\ NewCard
    /\ typed = 0
    /\ mask0 = Mask

\* Game.HandleKeyPress: the player presses the key ch; `fault` is what goes
\* wrong with the scores file meanwhile.
HandleKeyPressUnder(ch, fault) ==
    /\ main = "card"
    /\ LET s == GameHandleKeyPress([State EXCEPT !.fault = fault], ch)
       IN  Becomes(s) /\ swallowed' = s.swallowed
    /\ typed' = IF typed >= 0 /\ typed < Len(Secret)
                   /\ ToLower(ch) = ToLower(At(Secret, typed))
                THEN typed + 1
                ELSE -1
    /\ UNCHANGED <<mask0, sessionVars, programVars, historyVars>>

\* The player presses the key ch, the scores file working.
HandleKeyPress(ch) == HandleKeyPressUnder(ch, NoFault)

\* Game.HandleTick: the one-second timer fires.
HandleTickUnder(fault) ==
    /\ main = "card"
    /\ LET s == GameHandleTick([State EXCEPT !.fault = fault])
       IN  Becomes(s) /\ swallowed' = s.swallowed
    /\ UNCHANGED <<typed, mask0, sessionVars, programVars, historyVars>>

\* The one-second timer fires, the scores file working.
HandleTick == HandleTickUnder(NoFault)

Next ==
    \/ \E ch \in Keys : HandleKeyPress(ch)
    \/ HandleTick

Spec == Init /\ [][Next]_vars

SpecTyped == InitTyped /\ [][Next]_vars

\* ------------------------------------------------- the session's machine

\* The Session value the variables hold.
Sess ==
    [Cards |-> cards, CurrentIndex |-> CurrentIndex, CurrentGame |-> State,
     GameOptions |-> options, TotalScore |-> TotalScore,
     TotalTimeLimit |-> TotalTimeLimit, TimeRemaining |-> SessionTimeRemaining]

\* The variables hold the Session value sess (in the next state).
SessBecomes(sess) ==
    /\ Becomes(sess.CurrentGame)
    /\ cards' = sess.Cards
    /\ CurrentIndex' = sess.CurrentIndex
    /\ options' = sess.GameOptions
    /\ TotalScore' = sess.TotalScore
    /\ TotalTimeLimit' = sess.TotalTimeLimit
    /\ SessionTimeRemaining' = sess.TimeRemaining

\* The variables hold the Session value sess (in this state).
SessHolds(sess) ==
    /\ Holds(sess.CurrentGame)
    /\ cards = sess.Cards
    /\ CurrentIndex = sess.CurrentIndex
    /\ options = sess.GameOptions
    /\ TotalScore = sess.TotalScore
    /\ TotalTimeLimit = sess.TotalTimeLimit
    /\ SessionTimeRemaining = sess.TimeRemaining

\* The game variables while Session.CurrentGame is nil.
NoGame(store) ==
    NewState(<<>>, InitScoring(<<>>, "", <<>>, 0),
             [TimerLimit |-> 0, FirstLetter |-> FALSE, NRandom |-> 0, NWords |-> 0],
             store)

\* The second the current attempt's scoring was initialised in.
Timestamp == Score.history.CurrentScore.Timestamp

\* initialModel and the start of main's loop: the cards are loaded, the
\* session is constructed on the scores file `store` and the first program
\* starts.
InitSession(store) ==
    /\ \E cs \in SessionCards, opts \in SessionOptions, randomize \in BOOLEAN :
           \E r \in NewSession(cs, opts, store, randomize, 0, NoFault) :
               IF r.err = ""
               THEN /\ SessHolds(r.sess)
                    /\ ticking = r.sess.CurrentGame.TimerEnabled
                    /\ main = "run"
                    /\ printed = ""
               ELSE /\ SessHolds([r.sess EXCEPT !.CurrentGame = NoGame(store)])
                    /\ ticking = FALSE
                    /\ main = "done"
                    /\ printed = "Error initializing model"
    /\ swallowed = {}
    /\ Quitting = FALSE
    /\ quit = ""
    /\ gameCard = 0
    /\ runCard = 0
    /\ wonCards = {}
    /\ typed = -1
    /\ mask0 = <<>>

\* The quit message in flight once LocalState.Update has returned a QuitMsg.
withQuitMsg(q) == IF q = "" THEN "QuitMsg" ELSE q

\* The variables after currentGame has handled an event and become g1:
\* Session.Update, then the test that sets Quitting.  `rescheduled` tells
\* whether the handler returns tickCmd when it goes on.
afterEvent(g1, now, fault, rescheduled) ==
    \E r \in Update([Sess EXCEPT !.CurrentGame = g1], now, fault) :
        LET ending == IsSessionLoss(r.sess) \/ IsFinished(r.sess) \/ g1.Win
            replaced == r.sess.CurrentGame # g1
        IN  /\ SessBecomes(r.sess)
            /\ swallowed' = g1.swallowed
                                \cup (IF r.dropped # "" THEN {r.dropped} ELSE {})
            /\ Quitting' = (Quitting \/ ending)
            /\ quit' = IF ending THEN withQuitMsg(quit) ELSE quit
            /\ ticking' = IF rescheduled THEN ~ending ELSE ticking
            /\ wonCards' = IF g1.Win /\ ~Win
                           THEN wonCards \cup {<<gameCard, g1.Score.CurrentScore>>}
                           ELSE wonCards
            /\ gameCard' = IF replaced THEN r.sess.CurrentIndex ELSE gameCard
            /\ UNCHANGED <<main, printed, runCard, typed, mask0>>

\* LocalState.Update on a tea.KeyMsg.
KeyMsg(ch, now, fault) ==
    /\ main = "run"
    /\ IF IsExitRequested(ch)
       THEN /\ quit' = "ctrl+c"
            /\ UNCHANGED <<gameVars, swallowed, sessionVars, Quitting, ticking, main,
                           printed, historyVars, typed, mask0>>
       ELSE IF (Win \/ Loss) /\ (IsFinished(Sess) \/ IsSessionLoss(Sess) \/ Win)
       THEN /\ Quitting' = TRUE
            /\ quit' = withQuitMsg(quit)
            /\ UNCHANGED <<gameVars, swallowed, sessionVars, ticking, main, printed,
                           historyVars, typed, mask0>>
       ELSE afterEvent(GameHandleKeyPress([State EXCEPT !.fault = fault], ch),
                       now, fault, FALSE)

\* LocalState.Update on a TickMsg.
TickMsg(now, fault) ==
    /\ main = "run"
    /\ ticking
    /\ IF Quitting
       THEN /\ ticking' = FALSE
            /\ quit' = withQuitMsg(quit)
            /\ UNCHANGED <<gameVars, swallowed, sessionVars, Quitting, main, printed,
                           historyVars, typed, mask0>>
       ELSE afterEvent(GameHandleTick([State EXCEPT !.fault = fault]), now, fault, TRUE)

\* LocalState.Update on a QuitMsg: it returns tea.Quit.
QuitMsg ==
    /\ main = "run"
    /\ quit = "QuitMsg"
    /\ quit' = "tea.Quit"
    /\ UNCHANGED <<gameVars, swallowed, sessionVars, Quitting, ticking, main, printed,
                   historyVars, typed, mask0>>

\* tea.Quit takes effect: p.Run returns and main goes through the body of its
\* loop, starting the next program unless it leaves the loop.
ProgramExit(now, fault) ==
    /\ main = "run"
    /\ quit \in {"tea.Quit", "ctrl+c"}
    /\ \E r \in mainLoop(Sess, now, fault) :
           /\ SessBecomes(r.sess)
           /\ main' = IF r.done THEN "done" ELSE "run"
           /\ printed' = r.printed
           /\ Quitting' = IF r.done THEN Quitting ELSE FALSE
           /\ quit' = IF r.done THEN quit ELSE ""
           /\ ticking' = IF r.done THEN FALSE ELSE r.sess.CurrentGame.TimerEnabled
           /\ gameCard' = IF r.done THEN gameCard ELSE r.sess.CurrentIndex
           /\ runCard' = IF r.done THEN runCard ELSE r.sess.CurrentIndex
    /\ UNCHANGED <<swallowed, wonCards, typed, mask0>>

NextSession ==
    \/ \E ch \in Keys, now \in NowAfter(Timestamp) : KeyMsg(ch, now, NoFault)
    \/ \E now \in NowAfter(Timestamp) : TickMsg(now, NoFault)
    \/ QuitMsg
    \/ \E now \in NowAfter(Timestamp) : ProgramExit(now, NoFault)

SpecSession == InitSession(NoStore) /\ [][NextSession]_vars

\* The same program with a scores file that may fail, and that may be
\* unreadable from the start.
InitFaults == \E t \in BOOLEAN : InitSession([ledger |-> <<>>, torn |-> t])

NextFaults ==
    \/ \E ch \in Keys, now \in NowAfter(Timestamp), fault \in Faults : KeyMsg(ch, now, fault)
    \/ \E now \in NowAfter(Timestamp), fault \in Faults : TickMsg(now, fault)
    \/ QuitMsg
    \/ \E now \in NowAfter(Timestamp), fault \in Faults : ProgramExit(now, fault)

SpecFaults == InitFaults /\ [][NextFaults]_vars

\* ------------------------------------------------------------- properties

\* The positions of the mask that show the placeholder.
Hidden == {p \in Indices(Mask) : At(Mask, p) = Placeholder}

\* The game has not ended and waits for the next key or tick.
Running == ~Win /\ ~Loss

\* C1: in every reachable state the mask is as long as the secret, and every
\* mask position holds either the placeholder or the secret's character at
\* that position.
MaskShowsPlaceholderOrSecret ==
    /\ Len(Mask) = Len(Secret)
    /\ \A p \in Indices(Secret) : At(Mask, p) \in {Placeholder, At(Secret, p)}

\* A running game after a correct key and a hint, with positions of both kinds.
MaskPartlyUncovered ==
    /\ Running
    /\ Score.HintCount > 0
    /\ Score.CurrentScore > 0
    /\ Hidden # {}
    /\ Hidden # Indices(Mask)

\* C2: a mask position that shows its character shows it in every later
\* state: no key press and no tick puts a placeholder back.
UncoveredStaysUncovered ==
    [][\A p \in Indices(Mask) :
          At(Mask, p) # Placeholder
              => p < Len(Mask') /\ At(Mask', p) = At(Mask, p)]_vars

\* A game ended by reveal-all after a key had uncovered a position and a tick
\* had passed.
UncoveredThenRevealed ==
    /\ Revealed
    /\ Score.CurrentScore > 0
    /\ TimerEnabled
    /\ TimeRemaining < TimeLimit

\* The words of the secret: its maximal runs of letters and digits.
CompletedWords ==
    Cardinality({p \in Indices(Secret) :
                    /\ IsLetterOrDigit(At(Secret, p))
                    /\ (p + 1 = Len(Secret) \/ ~IsLetterOrDigit(At(Secret, p + 1)))})

\* The characters the player has to type: those the new game hid.
CorrectChars == Cardinality({p \in Indices(mask0) : At(mask0, p) = Placeholder})

\* The new game showed nothing but the ignorable characters, and hid some.
FreshGame ==
    /\ CorrectChars > 0
    /\ \A p \in Indices(mask0) :
           At(mask0, p) = Placeholder <=> ~ShouldIgnore(At(Secret, p))

\* C3: when the keys pressed on a fresh game are exactly the secret's
\* characters in order (in any case), the game is won with a score of 25 per
\* typed character, 250 per completed word and 1000, plus 10 per second
\* remaining when the timer is on.
TypingTheSecretScores ==
    (typed = Len(Secret) /\ FreshGame)
        => /\ Win
           /\ Score.CurrentScore =
                  25 * CorrectChars + 250 * CompletedWords + 1000
                      + (IF TimerEnabled THEN 10 * TimeRemaining ELSE 0)

\* C4: a negative score is only ever seen in a game that has ended in a loss
\* (so never in one that waits for input), and from then on no key press and
\* no tick changes the score or the hint and error counts.
NegativeScoreIsFinalLoss ==
    /\ [](Score.CurrentScore < 0 => Loss /\ ~Win /\ FSM = "endState")
    /\ [][Score.CurrentScore < 0 => Score' = Score]_vars

\* A game lost to the penalty that took the score below zero, after a wrong
\* key and a hint.
LostToNegativeScore ==
    /\ Score.CurrentScore < 0
    /\ Loss
    /\ Score.HintCount > 0
    /\ Score.ErrorCount > 0
    /\ ~Revealed

\* C9: a game that has ended (win or loss, whatever ended it) has had exactly
\* one persistence write and rests in the FSM's end state; a game that has
\* not ended has had none.
SavedExactlyOnceAtEnd ==
    /\ saveCalls = (IF Win \/ Loss THEN 1 ELSE 0)
    /\ (Win \/ Loss) <=> FSM = "endState"
    /\ Running => FSM = "idle"

\* A game the timer ended, with its one entry in the ledger.
TimerExpirySaved ==
    /\ Loss
    /\ TimerEnabled
    /\ TimeRemaining = 0
    /\ saveCalls = 1
    /\ Len(ledger) = 1

\* The State a key ch meets once the skip-revealed pass of its input is done.
AtCursor(ch) == [SkipRevealed(State) EXCEPT !.CurrentChar = ch]

\* The cursor after the skip-revealed pass of the next input.
Cursor == SkipRevealed(State).Pos

\* The key ch is neither a command nor ignorable, is not the character at the
\* cursor and is not typed through the uncovered run before it.
WrongKey(ch) ==
    /\ ~IsExitRequested(ch)
    /\ ~IsRevealRequested(ch)
    /\ ch # "?"
    /\ ~ShouldIgnore(ch)
    /\ ~IsCorrectLetter(AtCursor(ch), ch)
    /\ ~TypedThrough(AtCursor(ch), Cursor - 1)

\* The key "?" is taken as a hint: it is not the character at the cursor and
\* no "?" stands in the uncovered run before it.
HintKey ==
    /\ ~IsCorrectLetter(AtCursor("?"), "?")
    /\ ~TypedThrough(AtCursor("?"), Cursor - 1)

HintPoints(won) ==
    getScoreTable("hint") + (IF won THEN getScoreTable("messageBonus") ELSE 0)

\* C6 as claimed: every "?" pressed on a running game uncovers the first
\* placeholder and nothing else and costs one hint penalty; with no
\* placeholder left it changes neither mask, score nor hint count.
EveryQuestionMarkHints ==
    [][(Running /\ HandleKeyPress("?"))
          => IF Hidden # {}
             THEN /\ Mask' = SetAt(Mask, SetMin(Hidden), At(Secret, SetMin(Hidden)))
                  /\ Score'.CurrentScore = Score.CurrentScore + HintPoints(Win')
                  /\ Score'.HintCount = Score.HintCount + 1
             ELSE Mask' = Mask /\ Score' = Score]_vars

\* C6: a "?" pressed on a running game with a placeholder left is a hint
\* unless "?" is the character at the cursor or stands in the uncovered run
\* before it: the hint uncovers the first placeholder, which is the cursor's
\* non-ignorable position, and nothing else, costs 100 points (the message
\* bonus follows when the hint wins the game) and adds one to the hint
\* count.  A "?" that is the character at the cursor is a correct
\* key (no hint is counted, the score rises), one typed through the uncovered
\* run changes nothing, and with no placeholder left "?" changes neither
\* mask, score nor hint count.
QuestionMarkHintsUnlessTyped ==
    [][(Running /\ HandleKeyPress("?"))
          => IF Hidden = {}
             THEN Mask' = Mask /\ Score' = Score
             ELSE IF HintKey
             THEN /\ Cursor = SetMin(Hidden)
                  /\ ~ShouldIgnore(At(Secret, Cursor))
                  /\ Mask' = SetAt(Mask, Cursor, At(Secret, Cursor))
                  /\ Score'.CurrentScore = Score.CurrentScore + HintPoints(Win')
                  /\ Score'.HintCount = Score.HintCount + 1
                  /\ Score'.ErrorCount = Score.ErrorCount
             ELSE IF IsCorrectLetter(AtCursor("?"), "?")
             THEN /\ Mask' = SetAt(Mask, Cursor, "?")
                  /\ Score'.CurrentScore > Score.CurrentScore
                  /\ Score'.HintCount = Score.HintCount
             ELSE Mask' = Mask /\ Score' = Score]_vars

\* A running game after one hint that a typed "?" had paid for.
HintTakenAndPaid ==
    /\ Running
    /\ Score.HintCount = 1
    /\ Score.ErrorCount = 0
    /\ Score.CurrentScore = 175
    /\ Hidden # {}

\* C7 as claimed: a hint leaves the cursor where the skip-revealed pass of
\* its input put it.
HintKeepsCursor ==
    [][(Running /\ Hidden # {} /\ HintKey /\ HandleKeyPress("?"))
          => Pos' = Cursor]_vars

\* C7: a hint advances the cursor by one: after it the cursor is one past the
\* position the skip-revealed pass of its input reached, which is the
\* position the hint uncovered.
HintAdvancesCursor ==
    [][(Running /\ Hidden # {} /\ HintKey /\ HandleKeyPress("?"))
          => /\ Pos' = Cursor + 1
             /\ At(Mask, Cursor) = Placeholder
             /\ At(Mask', Cursor) = At(Secret, Cursor)]_vars

\* A game won by a hint on its last placeholder: the cursor went past it.
WonByHint ==
    /\ Win
    /\ Score.HintCount = 1
    /\ Pos = Len(Secret)

\* C8 as claimed: reveal-all on a running game always leaves the mask equal
\* to the secret and the game lost and revealed, with one persistence write.
RevealAllAlwaysLoses ==
    [][(Running /\ HandleKeyPress("ctrl+r"))
          => /\ Mask' = Secret
             /\ Loss'
             /\ Revealed'
             /\ saveCalls' = saveCalls + 1]_vars

\* C8: reveal-all on a running game with a placeholder left leaves the mask
\* equal to the secret and the game lost and revealed; on a running game
\* whose mask already equals the secret it ends the game as a win, neither
\* lost nor revealed.  Either way there is exactly one persistence write and
\* the score is unchanged.
RevealAllLosesUnlessUncovered ==
    [][(Running /\ HandleKeyPress("ctrl+r"))
          => /\ Mask' = Secret
             /\ saveCalls' = saveCalls + 1
             /\ Score' = Score
             /\ IF Hidden # {}
                THEN Loss' /\ Revealed' /\ ~Win'
                ELSE Win' /\ ~Loss' /\ ~Revealed']_vars

\* A game given up by reveal-all after a wrong key, saved once.
RevealedAfterError ==
    /\ Revealed
    /\ Loss
    /\ Mask = Secret
    /\ saveCalls = 1
    /\ Score.ErrorCount > 0

\* C10 as claimed: a quit key on a running game ends it as a loss and writes
\* nothing to the ledger.
QuitLosesUnsaved ==
    [][(Running /\ HandleKeyPress("ctrl+c"))
          => /\ Loss'
             /\ saveCalls' = saveCalls
             /\ ledger' = ledger]_vars

\* C10: a quit key on a running game ends it, as a loss when a placeholder is
\* left and as a win when the mask already equals the secret, and writes the
\* attempt to the ledger exactly once, with the score unchanged.
QuitEndsAndSaves ==
    [][(Running /\ HandleKeyPress("ctrl+c"))
          => /\ FSM' = "endState"
             /\ IF Hidden # {} THEN Loss' /\ ~Win' ELSE Win' /\ ~Loss'
             /\ ~Revealed'
             /\ Mask' = Mask
             /\ Score' = Score
             /\ saveCalls' = saveCalls + 1
             /\ ledger' = ledger \o <<Score.history.CurrentScore>>]_vars

\* A game lost to nothing but the quit key, with its entry in the ledger.
QuitSaved ==
    /\ Loss
    /\ ~Revealed
    /\ ~WrongLetter
    /\ ~TimerEnabled
    /\ Score.CurrentScore > 0
    /\ Len(ledger) = 1

\* The positions of the uncovered run of non-ignorable characters that ends
\* just before the cursor.
RunBeforeCursor ==
    {i \in 0 .. (Pos - 1) :
        \A j \in i .. (Pos - 1) :
            At(Mask, j) # Placeholder /\ ~ShouldIgnore(At(Secret, j))}

\* The cursor rests on a placeholder, and the key ch is a character of the
\* uncovered run before it but not the character at the cursor.
KeyOfRunBeforeCursor(ch) ==
    /\ Running
    /\ Pos < Len(Secret)
    /\ At(Mask, Pos) = Placeholder
    /\ \E i \in RunBeforeCursor : EqualFold(At(Secret, i), ch)
    /\ ~EqualFold(At(Secret, Pos), ch)

\* C16: with the cursor on a placeholder right after a run of uncovered,
\* non-ignorable characters, a key that is a character of that run (in any
\* case, and not the one at the cursor) changes neither score, error count,
\* hint count, wrong flag, mask nor cursor, and the game goes on.
TypeThroughChangesNothing ==
    [][\A ch \in Keys :
          (KeyOfRunBeforeCursor(ch) /\ HandleKeyPress(ch))
              => /\ Score' = Score
                 /\ WrongLetter' = WrongLetter
                 /\ Mask' = Mask
                 /\ Pos' = Pos
                 /\ Running']_vars

\* A running game whose cursor is on a placeholder after a typed run that
\* holds a character other than the one at the cursor, the wrong flag set.
CursorAfterTypedRun ==
    /\ \E ch \in Keys : KeyOfRunBeforeCursor(ch)
    /\ WrongLetter
    /\ Score.CurrentScore > 0
    /\ BracketedPositions = <<>>

\* The score a correct key at the cursor brings: the letter, the word bonus
\* when the character is a space or punctuation, and, when it wins the game,
\* the message bonus and the time bonus.
MatchPoints(won) ==
    getScoreTable("rightLetter")
        + (IF GotCompletedWord(AtCursor("")) THEN getScoreTable("wordBonus") ELSE 0)
        + (IF won
           THEN getScoreTable("messageBonus")
                    + (IF TimerEnabled THEN 10 * TimeRemaining ELSE 0)
           ELSE 0)

\* C17: a key that equals the character at the cursor (in any case) is
\* always handled as a correct match: the position is uncovered, the score
\* rises by the 25 of a right letter (and the bonuses that go with it), the
\* wrong flag is clear and the cursor advances by one or the game is won,
\* whatever the uncovered run before the cursor holds.  So on a game that
\* started with only its ignorable characters shown, the keys of the secret
\* pressed in order are never swallowed: unless the timer ran out, each finds
\* its position uncovered afterwards, without an error.
CorrectKeyAlwaysMatches ==
    /\ [][\A ch \in Keys :
             (Running /\ Hidden # {} /\ IsCorrectLetter(AtCursor(ch), ch)
                  /\ HandleKeyPress(ch))
                 => /\ Mask' = SetAt(Mask, Cursor, At(Secret, Cursor))
                    /\ Score'.CurrentScore = Score.CurrentScore + MatchPoints(Win')
                    /\ Score'.ErrorCount = Score.ErrorCount
                    /\ Score'.HintCount = Score.HintCount
                    /\ ~WrongLetter'
                    /\ ~Loss'
                    /\ (Win' \/ Pos' = Cursor + 1)]_vars
    /\ []((FreshGame /\ typed >= 0 /\ ~Loss)
             => /\ \A p \in 0 .. (typed - 1) : At(Mask, p) = At(Secret, p)
                /\ Score.ErrorCount = 0
                /\ Score.HintCount = 0)

\* A fresh game in which the second of two equal characters has just been
\* typed right after the first.
RepeatedCharacterTyped ==
    /\ FreshGame
    /\ typed >= 2
    /\ At(Secret, typed - 1) = At(Secret, typed - 2)
    /\ ~ShouldIgnore(At(Secret, typed - 1))
    /\ At(Mask, typed - 1) = At(Secret, typed - 1)
    /\ Running

\* ------------------------------------------------- a card and its ledger

\* The score entries a ledger may hold when an attempt at `content` starts in
\* the second `now`: of this text or of another, none from a later second.
PriorEntries(content, now) ==
    [Hash : {calculateHash(content), calculateHash(<<"other">>)},
     Score : {0, getScoreTable("rightLetter") + getScoreTable("messageBonus")},
     Timestamp : 0 .. now,
     Title : {"Title"}]

\* A card is loaded and its game constructed on a scores file that holds up
\* to MaxLedger entries.
InitLedger ==
    /\ \E content \in SessionTexts, now \in 0 .. MaxClock, limit \in {0, MaxTimeLimit} :
           \E prior \in SeqsUpTo(PriorEntries(content, now), MaxLedger) :
               \E s \in GameInit(content, InitScoring(content, "Title", prior, now),
                                  [TimerLimit |-> limit, FirstLetter |-> FALSE,
                                   NRandom |-> 0, NWords |-> 0],
                                  [ledger |-> prior, torn |-> FALSE]) :
                   Holds(s)
    /\ swallowed = {}
    /\ NoSession
    /\ typed = -1
    /\ mask0 = <<>>

SpecLedger == InitLedger /\ [][Next]_vars

RECURSIVE Count(_, _)
\* How often the entry e occurs in entries.
Count(entries, e) ==
    IF entries = <<>> THEN 0
    ELSE (IF Head(entries) = e THEN 1 ELSE 0) + Count(Tail(entries), e)

\* The entries of a ledger, as a set.
Entries(entries) == {entries[i] : i \in 1 .. Len(entries)}

\* C18: a save keeps every entry the ledger held just before it, of other
\* texts and of this text, as often as it was there, and adds exactly one
\* entry, the current attempt's, whatever the ledger held and whatever the
\* attempt's timestamp is.
SaveKeepsEveryEntry ==
    [][saveCalls' # saveCalls
          => \A e \in Entries(ledger) \cup Entries(ledger') :
                 Count(ledger', e)
                     = Count(ledger, e)
                           + (IF e = Score'.history.CurrentScore THEN 1 ELSE 0)]_vars

\* ------------------------------------------------ properties of a session

\* The card with index i was won.
CardWon(i) == \E w \in wonCards : w[1] = i

\* The program that was started for card runCard ends in this step: main's
\* loop is left or the next program starts.
ProgramEnds == main = "run" /\ (main' = "done" \/ runCard' # runCard)

\* C11: no card of a session is skipped.  When the program of a won card
\* which is not the last ends, the next program is started for the card
\* after it, with CurrentIndex on that card; and (the exit key apart) the
\* session is finished only when the current game is the last card's and has
\* ended.
NoCardSkipped ==
    /\ [][(ProgramEnds /\ CardWon(runCard) /\ runCard + 1 < Len(cards))
             => /\ main' = "run"
                /\ runCard' = runCard + 1
                /\ CurrentIndex' = runCard + 1]_vars
    /\ []((main # "card" /\ IsFinished(Sess) /\ quit # "ctrl+c")
             => (gameCard = Len(cards) - 1 /\ (Win \/ Loss)))

RECURSIVE SumScores(_)
\* The sum of the final scores in a set of <<index, final score>>.
SumScores(S) ==
    IF S = {} THEN 0
    ELSE LET w == CHOOSE x \in S : TRUE
         IN  w[2] + SumScores(S \ {w})

TimerCarriedOver ==
    /\ [][(main = "run" /\ TotalTimeLimit > 0 /\ gameCard' # gameCard)
             => /\ TimerEnabled'
                /\ TimeLimit' = TimeRemaining
                /\ TimeRemaining' = TimeRemaining
                /\ SessionTimeRemaining' = TimeRemaining
                /\ TimeRemaining > 0]_vars
    /\ []((main # "card" /\ TotalTimeLimit > 0)
             => /\ TimerEnabled
                /\ TimeRemaining <= 0 => (Loss /\ ~Revealed /\ quit # ""))

\* The second card is played with what the first left of the budget.
SecondCardOnRest ==
    /\ main = "run"
    /\ runCard = 1
    /\ quit = ""
    /\ TotalTimeLimit > 0
    /\ TimeLimit < TotalTimeLimit
    /\ TimeRemaining = TimeLimit

\* C14: when the program of a card ends with the game lost by forced reveal
\* and cards are left, the next card's game is constructed and its program
\* started; when it ends with the game lost to the timer or to a negative
\* score, main's loop is left; and from such a loss on no game is
\* constructed any more.
RevealLossAdvancesOtherLossEnds ==
    /\ [][(ProgramEnds /\ Loss)
             => IF Revealed
                THEN gameCard + 1 < Len(cards)
                         => /\ main' = "run"
                            /\ gameCard' = gameCard + 1
                            /\ runCard' = gameCard + 1
                            /\ CurrentIndex' = gameCard + 1
                            /\ Secret' = At(cards, gameCard + 1)
                            /\ ~Loss' /\ ~Win'
                ELSE main' = "done"]_vars
    /\ [][(main # "card" /\ Loss /\ ~Revealed)
             => UNCHANGED <<gameVars, gameCard, runCard, CurrentIndex>>]_vars

\* The second card is played after the first was given up.
SecondCardAfterReveal ==
    /\ main = "run"
    /\ runCard = 1
    /\ wonCards = {}
    /\ ledger # <<>>
    /\ quit = ""

\* C15: Ctrl+C ends the whole session: once the exit key was pressed no
\* program is started for a further card, and when the running program ends
\* main's loop is left.
CtrlCEndsSession ==
    [][(main = "run" /\ quit = "ctrl+c")
          => /\ runCard' = runCard
             /\ (main' = "run" => quit' = "ctrl+c")]_vars

\* ---------------------------------------- properties of the scores file

\* C19: a save is all-or-nothing: in a step in which SaveAll fails (its
\* error is dropped for the first time) on a scores file that holds entries,
\* the file keeps exactly these entries and stays readable.
FailedSaveKeepsLedger ==
    [][(/\ ledger # <<>>
        /\ ~torn
        /\ \E e \in SaveAllErrors : e \in swallowed' /\ e \notin swallowed)
          => (ledger' = ledger /\ ~torn')]_vars

\* C20: no failure of the scores file is swallowed: whenever loading or
\* saving fails at the end of a game or when the next card's scoring is
\* initialised, the caller gets the error, so that no error is ever dropped.
NoErrorSwallowed == swallowed = {}

\* ------------------------------------------- further properties of a card

\* C21: a tick on a running game with the timer enabled takes exactly one
\* second off TimeRemaining, leaves mask, cursor, score, counters and wrong
\* flag as they are, and ends the game in a loss exactly when TimeRemaining
\* has reached zero; with the timer disabled a tick changes nothing.
TickTakesOneSecond ==
    [][(Running /\ HandleTick)
          => IF TimerEnabled
             THEN /\ TimeRemaining' = TimeRemaining - 1
                  /\ UNCHANGED <<Mask, Pos, Score, WrongLetter, Win, Revealed>>
                  /\ Loss' = (TimeRemaining' = 0)
             ELSE UNCHANGED vars]_vars

\* A game with points and placeholders left was lost to the timer after
\* a tick that left it running.
LostToTimerWhilePlaying ==
    /\ TimerEnabled
    /\ Loss
    /\ TimeRemaining = 0
    /\ TimeLimit >= 2
    /\ Score.CurrentScore > 0
    /\ Hidden # {}

\* C22: once a game has ended, every later key and every later tick is a
\* no-op: mask, cursor, score, counters, flags, TimeRemaining and the
\* persisted ledger stay as they are, and nothing else of the game changes.
EndedGameIgnoresEvents ==
    [][(Win \/ Loss) => UNCHANGED <<gameVars, swallowed>>]_vars

\* A game that was won with time left on its clock, and saved.
WonWithTimeLeft ==
    /\ Win
    /\ TimerEnabled
    /\ TimeRemaining > 0
    /\ FSM = "endState"
    /\ ledger # <<>>

\* ------------------------------------------- a card over the letters H, i

\* The letters of the card "Hi" of TestGame_Gameplay_Flow, and the keys the
\* test presses on it.
FlowChars == {"H", "i"}

FlowKeys == {"h", "i", "z"}

FlowCards == SeqsUpTo(FlowChars, MaxFlowLen) \ {<<>>}

\* NewGame and Init on a card over H and i, its score starting from nothing.
InitFlow ==
    /\ \E content \in FlowCards, opts \in GameOptions :
           \E s \in GameInit(content, InitScoring(content, "Title", <<>>, 0), opts, NoStore) :
               Holds(s)
    /\ swallowed = {}
    /\ NoSession
    /\ typed = -1
    /\ mask0 = <<>>

NextFlow ==
    \/ \E ch \in FlowKeys : HandleKeyPress(ch)
    \/ HandleTick

SpecFlow == InitFlow /\ [][NextFlow]_vars

\* The card "Hi" after the key h on a fresh game: "H_", 25 points.
HiAfterH ==
    /\ Secret = <<"H", "i">>
    /\ Mask = <<"H", Placeholder>>
    /\ Score.CurrentScore = 25
    /\ Running

\* C23 as stated: on the fresh card "Hi" after h, the wrong key z sets the
\* flag, leaves mask and cursor and the game goes on, so that i then wins.
WrongKeyNeverEndsGame ==
    [][(HiAfterH /\ HandleKeyPress("z"))
          => (WrongLetter' /\ Mask' = Mask /\ Pos' = Pos /\ ~Loss' /\ ~Win')]_vars

\* C23, amended: a wrong key sets the flag and leaves mask and cursor, and the
\* game goes on exactly when 50 points or more were there to pay for it
\* (on the fresh card "Hi" after h they are not: z loses the game on "H_");
\* the correct key after a wrong one reveals the character, clears the flag
\* and wins when it was the last one hidden.
WrongKeySurvivedWithPoints ==
    /\ [][\A ch \in FlowKeys :
             (Running /\ Hidden # {} /\ WrongKey(ch) /\ HandleKeyPress(ch))
                 => /\ WrongLetter' /\ Mask' = Mask /\ Pos' = Cursor /\ ~Win'
                    /\ Score'.CurrentScore = Score.CurrentScore - 50
                    /\ Loss' = (Score.CurrentScore < 50)]_vars
    /\ [][(HiAfterH /\ HandleKeyPress("z"))
             => (Loss' /\ Mask' = <<"H", Placeholder>> /\ Score'.CurrentScore = -25)]_vars
    /\ [][\A ch \in FlowKeys :
             (Running /\ WrongLetter /\ Hidden # {}
                 /\ IsCorrectLetter(AtCursor(ch), ch) /\ HandleKeyPress(ch))
                 => /\ ~WrongLetter' /\ ~Loss'
                    /\ At(Mask', Cursor) = At(Secret, Cursor)
                    /\ (Hidden = {Cursor} => Win')]_vars

\* A card over H and i is won although one wrong key was pressed on it.
WonAfterOneWrongKey ==
    /\ Win /\ ~WrongLetter
    /\ Score.ErrorCount = 1 /\ Score.HintCount = 0
    /\ Mask = Secret
    /\ Secret \in FlowCards

\* C24: the cursor never moves backward, and it stays within 0 .. Len(Secret):
\* SkipRevealed stops at the end of the text, and enter_advancing steps on
\* from a position inside it only.
CursorOnlyForwardWithinText ==
    /\ [](0 <= Pos /\ Pos <= Len(Secret))
    /\ [][Pos' >= Pos]_vars

\* The cursor has been moved on to the end of a text of several characters,
\* by keys and over a revealed or ignorable position.
CursorMovedToEnd ==
    /\ Pos = Len(Secret)
    /\ Len(Secret) >= 3
    /\ Score.CurrentScore > 0
    /\ \E p \in Indices(Secret) : ShouldIgnore(At(Secret, p))

\* C25: a step raises ErrorCount or HintCount by one at most, and not both;
\* the score goes down only with one of them (50 for a wrong letter, 100 for
\* a hint, which may win the 1000 of the message in the same step); and every
\* such step finds the cursor on a position inside the text whose mask is the
\* placeholder and whose character is not ignorable.
PenaltyOnlyAtHiddenCursor ==
    [][LET dE == Score'.ErrorCount - Score.ErrorCount
           dH == Score'.HintCount - Score.HintCount
       IN  /\ dE \in {0, 1} /\ dH \in {0, 1} /\ dE + dH <= 1
           /\ Score'.CurrentScore < Score.CurrentScore => dE + dH = 1
           /\ dE = 1 => Score'.CurrentScore = Score.CurrentScore - 50
           /\ dH = 1 => Score'.CurrentScore \in {Score.CurrentScore - 100,
                                                 Score.CurrentScore - 100 + 1000}
           /\ dE + dH = 1
                 => /\ Cursor < Len(Secret)
                    /\ At(Mask, Cursor) = Placeholder
                    /\ ~ShouldIgnore(At(Secret, Cursor))]_vars

\* A penalty has been applied on a card whose cursor had stepped over an
\* ignorable position and over a revealed letter.
PenaltyAfterSkippedPositions ==
    /\ Score.ErrorCount + Score.HintCount >= 1
    /\ \E p \in Indices(Secret) : p < Pos /\ ShouldIgnore(At(Secret, p))
    /\ \E p \in Indices(Secret) : p < Pos /\ IsLetterOrDigit(At(Secret, p))
    /\ Pos < Len(Secret) /\ At(Mask, Pos) = Placeholder

\* ------------------------------------------------ the session's time budget

\* A text of n letters.
Letters(n) == [k \in 1 .. n |-> "A"]

\* Sessions of short cards and of a long one, whose third exceeds ten.
BudgetCards == SeqsUpTo({Letters(1), Letters(MaxLongCard)}, MaxCards) \ {<<>>}

\* The -t option: off, automatic (-1) or a fixed number of seconds.
BudgetOptions ==
    [TimerLimit : {-1, 0, MaxTimeLimit}, FirstLetter : {FALSE}, NRandom : {0}, NWords : {0}]

\* initialModel on cards and options of these.
InitBudget ==
    /\ \E cs \in BudgetCards, opts \in BudgetOptions, randomize \in BOOLEAN :
           \E r \in NewSession(cs, opts, NoStore, randomize, 0, NoFault) :
               /\ r.err = ""
               /\ SessHolds(r.sess)
               /\ ticking = r.sess.CurrentGame.TimerEnabled
    /\ main = "run"
    /\ printed = ""
    /\ swallowed = {}
    /\ Quitting = FALSE
    /\ quit = ""
    /\ gameCard = 0
    /\ runCard = 0
    /\ wonCards = {}
    /\ typed = -1
    /\ mask0 = <<>>

\* The keys of a player who has a card revealed or mistypes.
BudgetKeys == {"ctrl+r", "z"}

NextBudget ==
    \/ \E ch \in BudgetKeys, now \in NowAfter(Timestamp) : KeyMsg(ch, now, NoFault)
    \/ \E now \in NowAfter(Timestamp) : TickMsg(now, NoFault)
    \/ QuitMsg
    \/ \E now \in NowAfter(Timestamp) : ProgramExit(now, NoFault)

SpecBudget == InitBudget /\ [][NextBudget]_vars

\* The larger of two numbers.
Max(a, b) == IF a >= b THEN a ELSE b

RECURSIVE SumOfAutoLimits(_, _)
\* The sum over the first n cards of max(10, length / 3).
SumOfAutoLimits(cs, n) ==
    IF n = 0 THEN 0 ELSE SumOfAutoLimits(cs, n - 1) + Max(10, Len(cs[n]) \div 3)

\* C26: the session's total budget is the fixed limit when one is configured,
\* in automatic mode the sum over the cards of max(10, length / 3), and 0 with
\* the timer of every card disabled when the timer is off; the session's
\* TimeRemaining, and the first card's clock, start equal to the total.
SessionBudget ==
    /\ SessionTimeRemaining = TotalTimeLimit
    /\ TotalTimeLimit > 0 => TimerEnabled /\ TimeRemaining = TotalTimeLimit
    /\ [](TotalTimeLimit = (IF options.TimerLimit > 0 THEN options.TimerLimit
                            ELSE IF options.TimerLimit = -1
                                 THEN SumOfAutoLimits(cards, Len(cards))
                                 ELSE 0))
    /\ [](options.TimerLimit = 0 => TotalTimeLimit = 0 /\ ~TimerEnabled /\ ~ticking)

\* An automatic budget of a short and a long card, partly used up.
AutoBudgetOfTwoCards ==
    /\ options.TimerLimit = -1
    /\ Len(cards) = 2
    /\ TotalTimeLimit = 10 + MaxLongCard \div 3
    /\ SessionTimeRemaining < TotalTimeLimit

\* ------------------------------------------------------ the scoring events

\* The events of the score table that the engine fires.
ScoringEvents == {"rightLetter", "wrongLetter", "hint", "wordBonus", "messageBonus"}

\* The points that the README's scoring table gives an event.
TableValue(event) ==
    CASE event = "rightLetter" -> 25
      [] event = "wrongLetter" -> -50
      [] event = "hint" -> -100
      [] event = "wordBonus" -> 250
      [] event = "messageBonus" -> 1000

\* C27: on every score the game reaches, each scoring event changes
\* CurrentScore by its table value, raises HintCount on a hint only and
\* ErrorCount on a wrong letter only, and leaves the in-progress entry of the
\* history with the new CurrentScore; the entry always carries the current
\* score, and the entry persisted at the end of the game carries the final one.
ScoreEventsKeepEntryCurrent ==
    /\ \A event \in ScoringEvents :
           LET sc == ScoreEvent(Score, event)
           IN  /\ sc.CurrentScore = Score.CurrentScore + TableValue(event)
               /\ sc.HintCount = Score.HintCount + (IF event = "hint" THEN 1 ELSE 0)
               /\ sc.ErrorCount = Score.ErrorCount + (IF event = "wrongLetter" THEN 1 ELSE 0)
               /\ sc.history.CurrentScore.Score = sc.CurrentScore
    /\ Score.history.CurrentScore.Score = Score.CurrentScore
    /\ (Win \/ Loss)
          => \E k \in 1 .. Len(ledger) :
                /\ ledger[k].Hash = Score.textHash
                /\ ledger[k].Timestamp = Score.history.CurrentScore.Timestamp
                /\ ledger[k].Score = Score.CurrentScore

\* A won game's score, bonuses for the message and the seconds left included,
\* is the one in the ledger.
SavedScoreWithBonuses ==
    /\ Win /\ TimerEnabled /\ TimeRemaining > 0
    /\ Score.CurrentScore >= 1000 + 10 * TimeRemaining + 25
    /\ Len(ledger) = 1
    /\ ledger[1].Score = Score.CurrentScore

\* ------------------------------------------------- bracket-annotated cards

\* Characters of a raw card text: a letter, a letter of two bytes, the line
\* break and the two brackets.
RawChars == {"A", "é", "\n", "[", "]"}

IsBracket(ch) == ch \in {"[", "]"}

\* The brackets among the first n characters of raw that are ch.
CountBefore(raw, n, ch) == Cardinality({k \in 1 .. n : raw[k] = ch})

\* The bracket spans of raw are balanced and not nested.
Balanced(raw) ==
    /\ \A n \in 0 .. Len(raw) :
           CountBefore(raw, n, "[") - CountBefore(raw, n, "]") \in {0, 1}
    /\ CountBefore(raw, Len(raw), "[") = CountBefore(raw, Len(raw), "]")

\* raw with every bracket removed.
Stripped(raw) == SelectSeq(raw, LAMBDA ch : ~IsBracket(ch))

\* The indices, in Stripped(raw), of the characters inside a span of raw.
InsideSpans(raw) ==
    {(k - 1) - (CountBefore(raw, k, "[") + CountBefore(raw, k, "]")) :
        k \in {j \in 1 .. Len(raw) :
                  /\ ~IsBracket(raw[j])
                  /\ CountBefore(raw, j, "[") > CountBefore(raw, j, "]")}}

\* The raw card texts the loader hands on: trimmed, and with something to type
\* once the brackets are gone.
RawCards ==
    {raw \in SeqsUpTo(RawChars, MaxRawLen) :
        /\ Balanced(raw)
        /\ Stripped(raw) # <<>>
        /\ raw[1] # "\n" /\ raw[Len(raw)] # "\n"}

\* NewGame and Init on a raw card, which the one-card session keeps.
InitBrackets ==
    /\ \E content \in RawCards, limit \in {0, MaxTimeLimit} :
           /\ \E s \in GameInit(content, InitScoring(content, "Title", <<>>, 0),
                                 [TimerLimit |-> limit, FirstLetter |-> FALSE,
                                  NRandom |-> 0, NWords |-> 0], NoStore) :
                  Holds(s)
           /\ cards = <<content>>
    /\ swallowed = {}
    /\ CurrentIndex = 0
    /\ options = <<>>
    /\ TotalScore = 0
    /\ TotalTimeLimit = 0
    /\ SessionTimeRemaining = 0
    /\ Quitting = FALSE
    /\ quit = ""
    /\ ticking = FALSE
    /\ main = "card"
    /\ printed = ""
    /\ gameCard = 0
    /\ runCard = 0
    /\ wonCards = {}
    /\ typed = -1
    /\ mask0 = <<>>

SpecBrackets == InitBrackets /\ [][Next]_vars

\* The set of the positions that SetBracketedPositions recorded.
BracketedSet == {BracketedPositions[k] : k \in 1 .. Len(BracketedPositions)}

\* C28: for a raw text whose bracket spans are balanced and not nested, the
\* secret is the text with every bracket removed, and the pre-revealed
\* positions are exactly the indices, in that secret, of the characters that
\* were inside a span.
BracketsStrippedInsideRevealed ==
    Balanced(At(cards, 0))
        => /\ Secret = Stripped(At(cards, 0))
           /\ BracketedSet = InsideSpans(At(cards, 0))

\* --------------------------------------------------- the cursor after Init

\* The smallest index whose mask is the placeholder, or the length of the
\* secret if there is none.
FirstHidden == IF Hidden = {} THEN Len(Secret) ELSE SetMin(Hidden)

\* C29: after Init the cursor is the smallest index whose mask is the
\* placeholder, or len(Secret) if there is none, and the score, the hint count
\* and the error count are as InitScoring set them (0); and whenever the skip
\* pass runs later, it leaves the cursor on the smallest such index again.
CursorStartsAtFirstHidden ==
    /\ Pos = FirstHidden
    /\ Score.CurrentScore = 0 /\ Score.HintCount = 0 /\ Score.ErrorCount = 0
    /\ [](Cursor = FirstHidden)

\* A new game whose cursor Init has moved over revealed letters.
StartedBehindRevealedLetters ==
    /\ Pos > 0 /\ Pos < Len(Secret)
    /\ \A p \in 0 .. (Pos - 1) : IsLetterOrDigit(At(Secret, p))
    /\ Score.CurrentScore = 0 /\ Score.HintCount = 0 /\ Score.ErrorCount = 0
    /\ Running /\ FSM # "endState"
    /\ TimeRemaining = TimeLimit
    /\ Hidden # {}

\* ------------------------------------------------------- the word bonus

\* The character after the cursor's is a space or a punctuation mark.
BoundaryAfterCursor ==
    /\ Cursor + 1 < Len(Secret)
    /\ (At(Secret, Cursor + 1) = " " \/ isPunctuation(At(Secret, Cursor + 1)))

\* C30: a correct key on a character that is not the last of the text brings
\* the word bonus of 250 (with the 25 of the letter, and what a win adds) if
\* and only if the character following the revealed one is a space or a
\* punctuation mark.
WordBonusIffBoundaryFollows ==
    [][\A ch \in Keys :
          (Running /\ Hidden # {} /\ Cursor + 1 < Len(Secret)
              /\ IsCorrectLetter(AtCursor(ch), ch) /\ HandleKeyPress(ch))
              => ((\E won \in {0, 1000 + 10 * TimeRemaining, 1000} :
                      Score'.CurrentScore = Score.CurrentScore + 25 + 250 + won)
                    <=> BoundaryAfterCursor)]_vars

\* ------------------------------------------------- the bonuses of a win

\* The points a step adds to the score.
Gained == Score'.CurrentScore - Score.CurrentScore

\* C31: a step that applies the message bonus of 1000 to a game whose timer
\* is enabled applies the time bonus of 10 per second left with it (on top of
\* what the key itself brings: a letter, a letter with the word bonus, a hint
\* or nothing), and an ended game's score is not touched again.
MessageBonusComesWithTimeBonus ==
    [][/\ (Running /\ TimerEnabled /\ Gained >= 800)
            => \E key \in {25, 25 + 250, -100, 0} :
                  Gained = key + 1000 + 10 * TimeRemaining
       /\ (Win \/ Loss) => Gained = 0]_vars

\* ------------------------------------------------------ how a game ends

\* C32: a game is declared won only when the mask equals the secret in full.
WinOnlyOnFullMask == Win => Mask = Secret

\* A game on a text of several characters has been won without a hint.
WonByTyping ==
    /\ Win /\ Mask = Secret
    /\ Len(Secret) >= 2
    /\ Score.CurrentScore >= 1000 + 2 * 25
    /\ Score.HintCount = 0

\* C33: when a step takes the cursor to the end of the secret with the mask
\* equal to the secret and the score not negative, the game ends in a win,
\* never in a loss, whatever the wrong-letter flag is and whether the last
\* position was typed or hinted.
FullMaskAtEndWins ==
    [][(Running /\ Pos < Len(Secret) /\ Pos' = Len(Secret)
           /\ Mask' = Secret /\ Score'.CurrentScore >= 0)
          => (Win' /\ ~Loss')]_vars

\* C34: the state machine is in its ended state exactly when one of Win and
\* Loss is set, and never both are; a flag once set stays as it is, and so
\* does the other one; a revealed card is a lost one.
EndedIsTerminalAndExclusive ==
    /\ [](~(Win /\ Loss))
    /\ []((FSM = "endState") <=> (Win \/ Loss))
    /\ [](Revealed => Loss)
    /\ [][(Win \/ Loss) => (Win' = Win /\ Loss' = Loss /\ FSM' = "endState")]_vars

\* The player had the card revealed, which ended the game as lost.
EndedByReveal ==
    /\ Revealed /\ Loss /\ ~Win
    /\ FSM = "endState"
    /\ Mask = Secret
    /\ Score.CurrentScore >= 0

\* C35: when HandleKeyPress or HandleTick has returned, the state machine is
\* back in idle or in the ended state, and it is in idle as long as the game
\* is running: it is never left in a state the next input is not accepted in.
InputProcessedToCompletion ==
    /\ FSM \in {"idle", "endState"}
    /\ Running => FSM = "idle"

\* A game has taken a correct key, a wrong key and a tick and waits for more.
WaitingAfterKeysAndTick ==
    /\ Running /\ FSM = "idle"
    /\ WrongLetter /\ Score.ErrorCount >= 1
    /\ Pos > 0
    /\ TimerEnabled /\ TimeRemaining < TimeLimit

\* ------------------------------------------- the cursor after a correct key

\* A step in which a running game took a correct key and went on: the only
\* steps that bring the 25 points of a letter (with or without the 250 of a
\* word) and no more.
CorrectKeyGoingOn ==
    /\ Running /\ Running'
    /\ Score'.CurrentScore - Score.CurrentScore \in {25, 25 + 250}
    /\ \E ch \in Keys : IsCorrectLetter(AtCursor(ch), ch)

RunningGameHasPlaceholder ==
    [][\A ch \in Keys :
          (Running /\ Hidden # {} /\ HandleKeyPress(ch) /\ Running')
              => Hidden' # {}]_vars

\* C38: the wrong-letter flag refers to the cursor position: a step that
\* moves the cursor of a game whose flag is set, and leaves the game running,
\* leaves the flag cleared.
WrongFlagClearedWhenCursorMoves ==
    [][(WrongLetter /\ Pos' # Pos /\ Running') => ~WrongLetter']_vars

\* C39: every position before the cursor is revealed, so the cursor is at the
\* end of the secret only when the mask equals the secret.
RevealedBeforeCursor ==
    /\ \A p \in Indices(Secret) : p < Pos => At(Mask, p) = At(Secret, p)
    /\ Pos >= Len(Secret) => Mask = Secret

\* The cursor stands inside a text, behind characters that were typed.
CursorBehindTypedCharacters ==
    /\ Running /\ Hidden # {}
    /\ Pos >= 2 /\ Pos < Len(Secret)
    /\ Score.CurrentScore >= 2 * 25
    /\ Score.HintCount = 0 /\ Score.ErrorCount = 0

\* ------------------------------------------------- the clock of a session

\* C40: the clock of a card stays within 0 .. TimeLimit; a running game with
\* the timer on has time left, and every tick it is handed takes one second
\* off, so that it has ended when as many ticks as its limit have come; and
\* the time the session has left never increases, from card to card either.
ClockRunsDownOnly ==
    /\ [](0 <= TimeRemaining /\ TimeRemaining <= TimeLimit)
    /\ []((TimerEnabled /\ Running) => TimeRemaining >= 1)
    /\ [][\A now \in 0 .. MaxClock :
             (Running /\ TimerEnabled /\ ticking /\ ~Quitting /\ TickMsg(now, NoFault))
                 => TimeRemaining' = TimeRemaining - 1]_vars
    /\ [][SessionTimeRemaining' <= SessionTimeRemaining]_vars

\* A later card of a session was lost when the session's time ran out.
TimeRanOutOnLaterCard ==
    /\ gameCard >= 1
    /\ TimerEnabled /\ Loss /\ ~Revealed
    /\ TimeRemaining = 0 /\ SessionTimeRemaining = 0
    /\ TotalTimeLimit >= 2

====
